---- MODULE Spec2Model ----
(***************************************************************************)
(* State-machine model of the assessment front end of deepTutor:           *)
(*   - MockExamPage and its ExamTimer (frontend/app/mock-exam/page.tsx)    *)
(*   - PracticeClient (frontend/app/practice/[subject]/PracticeClient.tsx) *)
(* Every React state cell is a variable; every event handler is an action. *)
(* An async handler is split at its awaits: the part before the await is   *)
(* the action named after the handler, each continuation is an action      *)
(* named after the response it waits for (...Ok / ...Fail).                *)
(***************************************************************************)
EXTENDS Integers, Sequences, FiniteSets, TLC

(***************************************************************************)
(* Bounds of the model.                                                    *)
(***************************************************************************)
MaxExams == 1          \* exams one page instance starts
MaxQuestions == 2      \* questions per section (20 or 30 in production)
SectionSeconds == 1    \* shortest section time limit, in timer ticks
MaxSelects == 1        \* answer clicks one page instance sees
MaxFailures == 1       \* API calls of one page instance that fail
PoolSize == 2          \* questions the bank holds for the practised subject
MaxSessionQuestions == 2  \* questions of one practice session (limit: 10)
MaxSessions == 2       \* practice sessions one page instance starts
MaxInFlight == 2       \* checkAnswer requests outstanding together
MaxHintRequests == 1   \* hint requests one page instance makes
MaxHintClicks == 3     \* hint requests of a session that is looked at alone
MaxSelected == 3       \* elements of one multi-select submission
MaxBatchSize == 1      \* attempts one completed session hands over
MaxCompletions == 2    \* session completions handed to the aggregator
MaxAttempted == 2      \* lifetime attempts of one question type when ranked
MaxGraded == 2         \* questions of one mock exam that were answered
MaxLessonQuestions == 2  \* questions of one lesson section
MaxRestarts == 1       \* times an assessment is tried again
MaxNodes == 2          \* nodes of one flowchart
MaxEdges == 2          \* edges of one flowchart
MaxRank == 3           \* rank up to which the ranking loop is followed
MaxDist == 2           \* largest distance between the two fingers of a pinch
MaxPinches == 2        \* two-finger touchmove events of one flowchart

(***************************************************************************)
(* Program constants.                                                      *)
(***************************************************************************)
NumPapers == 2
SectionsPerPaper == 4
NoSession == 0         \* useState<MockExamSession | null>(null)

Papers == 1..NumPapers
SectionIdxs == 0..(SectionsPerPaper - 1)
ExamIds == 1..MaxExams
Options == {"A", "B"}
NoAnswer == ""         \* answers[q.id] is undefined

\* A question id names the exam, paper and section the backend drew it for.
QIds == ExamIds \X Papers \X SectionIdxs \X (1..MaxQuestions)

\* session.papers[p].sections[i].time_seconds: limits differ between sections.
time_seconds(paperNum, sectionIdx) ==
  SectionSeconds + (IF sectionIdx = 1 THEN 1 ELSE 0)

\* mockExamAPI.getSectionQuestions: the questions of one section of one exam.
getSectionQuestions(examId, paperNum, sectionIdx) ==
  [k \in 1..MaxQuestions |-> <<examId, paperNum, sectionIdx, k>>]

VARIABLES
  \* ---- MockExamPage state (page.tsx 205-216)
  phase, session, currentPaper, currentSectionIdx, questions,
  currentQuestionIdx, answers, results, loading, error, sectionTimeLeft,
  \* ---- ExamTimer state (page.tsx 64)
  remaining,
  \* ---- the API call the page is awaiting, with the values its closure holds
  call,
  \* ---- backend: exams started, and how often each exam's attempts were
  \*      handed to the Mastery Aggregator
  examsStarted, recorded,
  \* ---- history: the section closings of the current exam, in order; the
  \*      stored state when the pending operation began; answer clicks and
  \*      failed API calls so far
  closedLog, opStart, selects, failures,
  \* ---- PracticeClient state (PracticeClient.tsx 43-52)
  practiceLoading, practiceError, practice, selectedAnswers, showResult,
  currentResult, showHint, currentHints, sessionComplete,
  \* ---- the getQuestions call the practice page is awaiting, and the
  \*      checkAnswer and getHints requests not yet answered, each with the
  \*      values its closure holds
  loadCall, checks, hintCalls,
  \* ---- history: practice sessions and hint requests so far, and the hint
  \*      levels shown for each question in the current session
  sessionsStarted, hintRequests, revealed,
  \* ---- Answer Evaluator: the latest evaluation, with its inputs
  lastEval,
  \* ---- Session State Machine: one practice session of the core
  coreSession,
  \* ---- Mastery Aggregator: the MasteryRecords, the per-user serialization
  \*      boundary, and the completion each device is handing over
  records, lock, job,
  \* ---- history: the records as the committed batches give them when applied
  \*      one after the other, and the number of completions so far
  expected, completions,
  \* ---- Recommendation Ranker: one user's MasteryRecords and the ranked
  \*      lists the progress page was given
  ranking,
  \* ---- completeExam of the core: the graded attempts of one mock exam and
  \*      the MockExamResult computed from them
  examResult,
  \* ---- PracticeSection / AssessmentSection of a lesson: the state cells and
  \*      the checkAnswer call the section is awaiting
  lesson,
  \* ---- computeLayout of the flowchart: its arguments, its locals and its
  \*      position in the code
  layout,
  \* ---- InteractiveFlowchart: zoom, pan and the pinch reference
  flowchart

examVars == <<phase, session, currentPaper, currentSectionIdx, questions,
              currentQuestionIdx, answers, results, loading, error,
              sectionTimeLeft, remaining, call, examsStarted,
              recorded, closedLog, opStart, selects, failures>>

practiceVars == <<practiceLoading, practiceError, practice, selectedAnswers,
                  showResult, currentResult, showHint, currentHints,
                  sessionComplete, loadCall, checks, hintCalls,
                  sessionsStarted, hintRequests, revealed>>

coreVars == <<lastEval, coreSession, records, lock, job, expected, completions>>

widgetVars == <<ranking, examResult, lesson, layout, flowchart>>

vars == <<examVars, practiceVars, coreVars, widgetVars>>

(***************************************************************************)
(* Values of the practice page                                             *)
(***************************************************************************)
PoolIds == 1..PoolSize
MaxHintLevel == 3

\* useState<PracticeState | null>(null): null is the record with startTime 0;
\* a session's startTime (Date.now()) is the number of the session.
\* answers is the Map as a set of entries, hintsUsed the Map with 0 for an
\* absent key (it is only read as `get(id) || 0`).
NoPractice == [questions |-> <<>>, currentIndex |-> 0, answers |-> {},
               hintsUsed |-> [q \in PoolIds |-> 0], startTime |-> 0]

\* useState<AnswerResult | null>(null)
NoResult == [is_correct |-> FALSE, correct_answer |-> ""]

\* PracticeClient.tsx 43-52: the state cells before any effect has run
PracticeCells ==
  /\ practiceLoading = TRUE
  /\ practiceError = ""
  /\ practice = NoPractice
  /\ selectedAnswers = <<>>
  /\ showResult = FALSE
  /\ currentResult = NoResult
  /\ showHint = FALSE
  /\ currentHints = 0
  /\ sessionComplete = FALSE
  /\ checks = <<>>
  /\ hintCalls = <<>>
  /\ sessionsStarted = 0
  /\ hintRequests = 0
  /\ revealed = [q \in PoolIds |-> {}]

Idle == [op |-> "idle", examId |-> NoSession, paperNum |-> 0, sectionIdx |-> 0,
         session |-> NoSession]

NoOperation == <<>>     \* no operation is pending

\* The stored state the failure semantics speak of.
StoredState == <<phase, currentPaper, currentSectionIdx, questions, sectionTimeLeft>>

\* page.tsx 430-442: the section view (question card, timer, buttons) is
\* rendered only when a question exists and nothing is loading.
SectionRendered(ph, ld, qs, idx) == ph = "section" /\ ~ld /\ idx + 1 <= Len(qs)

Mounted == SectionRendered(phase, loading, questions, currentQuestionIdx)

\* ExamTimer, page.tsx 64-70: a freshly mounted timer starts from `seconds`,
\* and a change of `seconds` resets it.  Conjoined last in every action.
TimerRender ==
  remaining' =
    IF SectionRendered(phase', loading', questions', currentQuestionIdx')
       /\ (~Mounted \/ sectionTimeLeft' # sectionTimeLeft)
    THEN sectionTimeLeft'
    ELSE remaining

ExamCells ==
  /\ phase = "intro"
  /\ session = NoSession
  /\ currentPaper = 1
  /\ currentSectionIdx = 0
  /\ questions = <<>>
  /\ currentQuestionIdx = 0
  /\ answers = [q \in QIds |-> NoAnswer]
  /\ results = NoSession
  /\ loading = FALSE
  /\ error = ""
  /\ sectionTimeLeft = 0
  /\ remaining = 0
  /\ call = Idle
  /\ examsStarted = 0
  /\ recorded = [e \in ExamIds |-> 0]
  /\ closedLog = <<>>
  /\ opStart = NoOperation
  /\ selects = 0
  /\ failures = 0

(***************************************************************************)
(* Values of the core: evaluator, practice session, mastery records        *)
(***************************************************************************)
Users == {"u1", "u2"}
Devices == {"d1", "d2"}
Groups == {<<"maths", "fractions">>, <<"english", "spelling">>}

\* no evaluation yet
NoEval == [question |-> 0, elements |-> <<>>, submitted |-> "", hints_used |-> 0,
           correct |-> FALSE, score |-> 0]

\* a practice session of the core before its first submission; result is
\* set by complete()
NoSessionResult == [total_correct |-> 0, total |-> 0, accuracy |-> <<0, 1>>,
                    total_score |-> 0]

NewCoreSession == [attempts |-> {}, completed |-> FALSE, result |-> NoSessionResult]

\* a MasteryRecord nothing was recorded in; mastery is the fraction
\* <<numerator, denominator>>
NoRecord == [total_attempted |-> 0, total_correct |-> 0, mastery |-> <<0, 1>>,
             last_practiced |-> 0]

IdleJob == [pc |-> "idle", user |-> "u1", batch |-> <<>>, timestamp |-> 0,
            snapshot |-> [g \in Groups |-> NoRecord]]

CoreCells ==
  /\ lastEval = NoEval
  /\ coreSession = NewCoreSession
  /\ records = [u \in Users |-> [g \in Groups |-> NoRecord]]
  /\ lock = [u \in Users |-> "free"]
  /\ job = [d \in Devices |-> IdleJob]
  /\ expected = [u \in Users |-> [g \in Groups |-> NoRecord]]
  /\ completions = 0

\* the progress of a user before get_progress answered
NoRanking == [records |-> <<>>, loaded |-> FALSE, weak_areas |-> <<>>,
              recommended_next |-> <<>>]

RankingCell == ranking = NoRanking

\* results of an exam that is not completed (useState<MockExamResult | null>)
NoExamResult == [total_correct |-> 0, total_questions |-> 0,
                 overall_accuracy |-> <<0, 1>>, papers |-> <<>>,
                 subject_breakdown |-> <<>>]

\* the questions of the one exam whose result is computed
ResultQuestions == {q \in QIds : q[1] = 1}

ExamResultCell ==
  examResult = [attempts |-> [q \in ResultQuestions |-> "none"],
                result |-> NoExamResult]

\* useState cells of a lesson section (PracticeSection.tsx 15-19); kind tells
\* the two components apart, pending is the closure of checkAnswer, restarts
\* counts the Try Again clicks
NoLesson == [kind |-> "practice", currentIndex |-> 0, selectedAnswer |-> "",
             result |-> "null", checking |-> FALSE, scores |-> <<>>,
             pending |-> <<>>, restarts |-> 0]

LessonCell == lesson = NoLesson

\* computeLayout before it is called
NoLayout == [nodes |-> <<>>, edges |-> <<>>, direction |-> "TD", pc |-> "idle",
             roots |-> <<>>, queue |-> <<>>, rankMap |-> <<>>, layouts |-> <<>>]

LayoutCell == layout = NoLayout

\* a number of the flowchart: a fraction <<numerator, denominator>> in lowest
\* terms; the floating point results of a division by zero are the
\* fractions with denominator zero
One == <<1, 1>>
NaN == <<0, 0>>
Infinity == <<1, 0>>

\* part_008 244-249: useState(1), useState({x: 0, y: 0}) and pinchRef;
\* panned tells whether pan may differ from {x: 0, y: 0}, pinches counts the
\* two-finger touchmove events
NewFlowchart == [zoom |-> One, panned |-> FALSE,
                 pinchRef |-> [dist |-> 0, zoom |-> One, panned |-> FALSE],
                 pinches |-> 0]

FlowchartCell == flowchart = NewFlowchart

WidgetCells ==
  RankingCell /\ ExamResultCell /\ LessonCell /\ LayoutCell /\ FlowchartCell

\* The mock exam page alone: no practice page is mounted.
ExamInit == ExamCells /\ PracticeCells /\ CoreCells /\ WidgetCells /\ loadCall = "none"

(***************************************************************************)
(* startExam and loadSection                                               *)
(***************************************************************************)
\* loadSection up to its first await (page.tsx 241-244).  closureSession is
\* the `session` the calling closure captured.
loadSection(examId, paperNum, sectionIdx, closureSession) ==
  /\ loading' = TRUE
  /\ call' = [op |-> "getSectionQuestions", examId |-> examId,
              paperNum |-> paperNum, sectionIdx |-> sectionIdx,
              session |-> closureSession]

\* page.tsx 224-228, button at 415-421
startExam ==
  /\ phase = "intro" /\ ~loading /\ call.op = "idle"
  /\ examsStarted < MaxExams
  /\ loading' = TRUE
  /\ error' = ""
  /\ call' = [Idle EXCEPT !.op = "startExam", !.session = session]
  /\ opStart' = StoredState
  /\ UNCHANGED <<failures, phase, session, currentPaper, currentSectionIdx, questions,
                 currentQuestionIdx, answers, results, sectionTimeLeft, examsStarted, recorded, closedLog, selects>>
  /\ TimerRender
  /\ UNCHANGED <<practiceVars, coreVars, widgetVars>>

\* page.tsx 229-233
StartExamOk ==
  /\ call.op = "startExam"
  /\ examsStarted' = examsStarted + 1
  /\ session' = examsStarted + 1
  /\ currentPaper' = 1
  /\ currentSectionIdx' = 0
  /\ phase' = "section"
  /\ loadSection(examsStarted + 1, 1, 0, call.session)
  /\ closedLog' = <<>>
  /\ UNCHANGED <<failures, questions, currentQuestionIdx, answers, results, error,
                 sectionTimeLeft, recorded, opStart, selects>>
  /\ TimerRender
  /\ UNCHANGED <<practiceVars, coreVars, widgetVars>>

\* page.tsx 234-238
StartExamFail ==
  /\ failures < MaxFailures
  /\ failures' = failures + 1
  /\ call.op = "startExam"
  /\ error' = "Failed to start exam"
  /\ loading' = FALSE
  /\ call' = Idle
  /\ opStart' = NoOperation
  /\ UNCHANGED <<phase, session, currentPaper, currentSectionIdx, questions,
                 currentQuestionIdx, answers, results, sectionTimeLeft, examsStarted, recorded, closedLog, selects>>
  /\ TimerRender
  /\ UNCHANGED <<practiceVars, coreVars, widgetVars>>

\* page.tsx 244-258, 261-263: getSectionQuestions answered
GetSectionQuestionsOk ==
  /\ call.op = "getSectionQuestions"
  /\ questions' = getSectionQuestions(call.examId, call.paperNum, call.sectionIdx)
  /\ currentQuestionIdx' = 0
  /\ IF call.session # NoSession
     THEN \* s = session: the time limit is read from the closure's session
          /\ sectionTimeLeft' = time_seconds(call.paperNum, call.sectionIdx)
          /\ loading' = FALSE
          /\ call' = Idle
          /\ opStart' = NoOperation
     ELSE \* s = await mockExamAPI.getExam(examId)
          /\ call' = [call EXCEPT !.op = "getExam"]
          /\ UNCHANGED <<sectionTimeLeft, loading, opStart>>
  /\ UNCHANGED <<failures, phase, session, currentPaper, currentSectionIdx, answers,
                 results, error, examsStarted, recorded, closedLog,
                 selects>>
  /\ TimerRender
  /\ UNCHANGED <<practiceVars, coreVars, widgetVars>>

\* page.tsx 259-263: getSectionQuestions rejected
GetSectionQuestionsFail ==
  /\ failures < MaxFailures
  /\ failures' = failures + 1
  /\ call.op = "getSectionQuestions"
  /\ error' = "Failed to load section"
  /\ loading' = FALSE
  /\ call' = Idle
  /\ opStart' = NoOperation
  /\ UNCHANGED <<phase, session, currentPaper, currentSectionIdx, questions,
                 currentQuestionIdx, answers, results, sectionTimeLeft, examsStarted, recorded, closedLog, selects>>
  /\ TimerRender
  /\ UNCHANGED <<practiceVars, coreVars, widgetVars>>

\* page.tsx 251-257, 261-263
GetExamOk ==
  /\ call.op = "getExam"
  /\ sectionTimeLeft' = time_seconds(call.paperNum, call.sectionIdx)
  /\ loading' = FALSE
  /\ call' = Idle
  /\ opStart' = NoOperation
  /\ UNCHANGED <<failures, phase, session, currentPaper, currentSectionIdx, questions,
                 currentQuestionIdx, answers, results, error,
                 examsStarted, recorded, closedLog, selects>>
  /\ TimerRender
  /\ UNCHANGED <<practiceVars, coreVars, widgetVars>>

\* page.tsx 251, 259-263
GetExamFail ==
  /\ failures < MaxFailures
  /\ failures' = failures + 1
  /\ call.op = "getExam"
  /\ error' = "Failed to load section"
  /\ loading' = FALSE
  /\ call' = Idle
  /\ opStart' = NoOperation
  /\ UNCHANGED <<phase, session, currentPaper, currentSectionIdx, questions,
                 currentQuestionIdx, answers, results, sectionTimeLeft, examsStarted, recorded, closedLog, selects>>
  /\ TimerRender
  /\ UNCHANGED <<practiceVars, coreVars, widgetVars>>

(***************************************************************************)
(* Answering and navigating inside a section                               *)
(***************************************************************************)
\* page.tsx 266-276, wired to the option buttons at 170-172 / 482.  The same
\* click sends mockExamAPI.submitAnswer(session.id, q.id, answer, elapsed)
\* without awaiting it; neither outcome has a continuation that touches the
\* page, so request and response are one step.  Here the submission is
\* accepted (or, without a session, not sent).
handleSelectAnswer(answer) ==
  /\ Mounted
  /\ selects < MaxSelects
  /\ LET q == questions[currentQuestionIdx + 1] IN
       answers' = [answers EXCEPT ![q] = answer]
  /\ selects' = selects + 1
  /\ UNCHANGED <<failures, phase, session, currentPaper, currentSectionIdx, questions,
                 currentQuestionIdx, results, loading, error, sectionTimeLeft,
                 call, examsStarted, recorded, closedLog, opStart>>
  /\ TimerRender
  /\ UNCHANGED <<practiceVars, coreVars, widgetVars>>

\* page.tsx 266-276 with the submission rejected or failing: .catch(() => {})
SubmitAnswerFail(answer) ==
  /\ Mounted
  /\ session # NoSession
  /\ selects < MaxSelects
  /\ failures < MaxFailures
  /\ LET q == questions[currentQuestionIdx + 1] IN
       answers' = [answers EXCEPT ![q] = answer]
  /\ selects' = selects + 1
  /\ failures' = failures + 1
  /\ UNCHANGED <<phase, session, currentPaper, currentSectionIdx, questions,
                 currentQuestionIdx, results, loading, error, sectionTimeLeft,
                 call, examsStarted, recorded, closedLog, opStart>>
  /\ TimerRender
  /\ UNCHANGED <<practiceVars, coreVars, widgetVars>>

\* page.tsx 278-283, button at 524-530 (shown unless on the last question)
nextQuestion ==
  /\ Mounted
  /\ currentQuestionIdx # Len(questions) - 1
  /\ currentQuestionIdx' = IF currentQuestionIdx < Len(questions) - 1
                           THEN currentQuestionIdx + 1
                           ELSE currentQuestionIdx
  /\ UNCHANGED <<failures, phase, session, currentPaper, currentSectionIdx, questions,
                 answers, results, loading, error, sectionTimeLeft, call,
                 examsStarted, recorded, closedLog, opStart, selects>>
  /\ TimerRender
  /\ UNCHANGED <<practiceVars, coreVars, widgetVars>>

\* page.tsx 285-290, button at 489-495 (disabled on the first question)
prevQuestion ==
  /\ Mounted
  /\ currentQuestionIdx # 0
  /\ currentQuestionIdx' = IF currentQuestionIdx > 0
                           THEN currentQuestionIdx - 1
                           ELSE currentQuestionIdx
  /\ UNCHANGED <<failures, phase, session, currentPaper, currentSectionIdx, questions,
                 answers, results, loading, error, sectionTimeLeft, call,
                 examsStarted, recorded, closedLog, opStart, selects>>
  /\ TimerRender
  /\ UNCHANGED <<practiceVars, coreVars, widgetVars>>

\* page.tsx 499-513: a navigator dot jumps to question i
navigatorDot(i) ==
  /\ Mounted
  /\ i \in 0..(Len(questions) - 1)
  /\ i # currentQuestionIdx
  /\ currentQuestionIdx' = i
  /\ UNCHANGED <<failures, phase, session, currentPaper, currentSectionIdx, questions,
                 answers, results, loading, error, sectionTimeLeft, call,
                 examsStarted, recorded, closedLog, opStart, selects>>
  /\ TimerRender
  /\ UNCHANGED <<practiceVars, coreVars, widgetVars>>

(***************************************************************************)
(* Closing a section                                                       *)
(***************************************************************************)
\* page.tsx 327-331: completeExam up to its await
completeExam ==
  IF session = NoSession
  THEN UNCHANGED <<loading, call, opStart>>
  ELSE /\ loading' = TRUE
       /\ call' = [Idle EXCEPT !.op = "completeExam", !.examId = session,
                               !.session = session]
       /\ opStart' = StoredState

\* history: a section closing is logged once, also when it is repeated
LogClosing(log, paperNum, sectionIdx) ==
  IF log # <<>> /\ log[Len(log)] = <<paperNum, sectionIdx>>
  THEN log
  ELSE Append(log, <<paperNum, sectionIdx>>)

\* Faulty variant of finishSection: the next index is off by one, a section is skipped.
finishSection_skips ==
  IF session = NoSession
  THEN UNCHANGED <<currentSectionIdx, phase, loading, call, opStart, closedLog>>
  ELSE LET nextSectionIdx == currentSectionIdx + 2 IN
       /\ closedLog' = LogClosing(closedLog, currentPaper, currentSectionIdx)
       /\ IF nextSectionIdx < SectionsPerPaper
          THEN /\ currentSectionIdx' = nextSectionIdx
               /\ phase' = "section_break"
               /\ UNCHANGED <<loading, call, opStart>>
          ELSE IF currentPaper = 1
          THEN /\ phase' = "paper_break"
               /\ UNCHANGED <<currentSectionIdx, loading, call, opStart>>
          ELSE /\ completeExam
               /\ UNCHANGED <<currentSectionIdx, phase>>

\* Faulty variant of finishSection: the paper is not looked at, so the end of Paper 1
\* completes the exam.
finishSection_noPaperCheck ==
  IF session = NoSession
  THEN UNCHANGED <<currentSectionIdx, phase, loading, call, opStart, closedLog>>
  ELSE LET nextSectionIdx == currentSectionIdx + 1 IN
       /\ closedLog' = LogClosing(closedLog, currentPaper, currentSectionIdx)
       /\ IF nextSectionIdx < SectionsPerPaper
          THEN /\ currentSectionIdx' = nextSectionIdx
               /\ phase' = "section_break"
               /\ UNCHANGED <<loading, call, opStart>>
          ELSE /\ completeExam
               /\ UNCHANGED <<currentSectionIdx, phase>>

\* Faulty variant of finishSection: a section with no answered question is
\* not closed.
finishSection_needsAnswer ==
  IF session = NoSession
     \/ \A n \in DOMAIN questions : answers[questions[n]] = NoAnswer
  THEN UNCHANGED <<currentSectionIdx, phase, loading, call, opStart, closedLog>>
  ELSE LET nextSectionIdx == currentSectionIdx + 1 IN
       /\ closedLog' = LogClosing(closedLog, currentPaper, currentSectionIdx)
       /\ IF nextSectionIdx < SectionsPerPaper
          THEN /\ currentSectionIdx' = nextSectionIdx
               /\ phase' = "section_break"
               /\ UNCHANGED <<loading, call, opStart>>
          ELSE IF currentPaper = 1
          THEN /\ phase' = "paper_break"
               /\ UNCHANGED <<currentSectionIdx, loading, call, opStart>>
          ELSE /\ completeExam
               /\ UNCHANGED <<currentSectionIdx, phase>>

\* page.tsx 292-311.  session.papers holds both papers, so `paper` is found.
finishSection ==
  IF session = NoSession
  THEN UNCHANGED <<currentSectionIdx, phase, loading, call, opStart, closedLog>>
  ELSE LET nextSectionIdx == currentSectionIdx + 1 IN
       /\ closedLog' = LogClosing(closedLog, currentPaper, currentSectionIdx)
       /\ IF nextSectionIdx < SectionsPerPaper
          THEN /\ currentSectionIdx' = nextSectionIdx
               /\ phase' = "section_break"
               /\ UNCHANGED <<loading, call, opStart>>
          ELSE IF currentPaper = 1
          THEN /\ phase' = "paper_break"
               /\ UNCHANGED <<currentSectionIdx, loading, call, opStart>>
          ELSE /\ completeExam
               /\ UNCHANGED <<currentSectionIdx, phase>>

\* Faulty variant of handleTimerExpired: expiry shows the break but does not advance.
handleTimerExpired_stays ==
  /\ phase' = "section_break"
  /\ closedLog' = LogClosing(closedLog, currentPaper, currentSectionIdx)
  /\ UNCHANGED <<currentSectionIdx, loading, call, opStart>>

\* page.tsx 341-343
handleTimerExpired == finishSection

\* page.tsx 517-523: the Finish Section button, shown on the last question
FinishSectionClick ==
  /\ Mounted
  /\ currentQuestionIdx = Len(questions) - 1
  /\ finishSection
  /\ UNCHANGED <<failures, session, currentPaper, questions, currentQuestionIdx, answers,
                 results, error, sectionTimeLeft, examsStarted,
                 recorded, selects>>
  /\ TimerRender
  /\ UNCHANGED <<practiceVars, coreVars, widgetVars>>

\* ExamTimer, page.tsx 78-87: one tick of the interval
TimerTick ==
  /\ Mounted
  /\ remaining > 0
  /\ IF remaining <= 1
     THEN /\ handleTimerExpired
          /\ remaining' = 0
     ELSE /\ remaining' = remaining - 1
          /\ UNCHANGED <<currentSectionIdx, phase, loading, call, opStart,
                         closedLog>>
  /\ UNCHANGED <<failures, session, currentPaper, questions, currentQuestionIdx, answers,
                 results, error, sectionTimeLeft, examsStarted,
                 recorded, selects>>
  /\ UNCHANGED <<practiceVars, coreVars, widgetVars>>

\* ExamTimer, page.tsx 72-77: the effect finds no time left
TimerEffectExpired ==
  /\ Mounted
  /\ remaining <= 0
  /\ handleTimerExpired
  /\ UNCHANGED <<failures, session, currentPaper, questions, currentQuestionIdx, answers,
                 results, error, sectionTimeLeft, examsStarted,
                 recorded, selects, remaining>>
  /\ UNCHANGED <<practiceVars, coreVars, widgetVars>>

(***************************************************************************)
(* Entering the next section                                               *)
(***************************************************************************)
\* page.tsx 313-317, button at 565-571
startNextSection ==
  /\ phase = "section_break" /\ ~loading
  /\ session # NoSession
  /\ phase' = "section"
  /\ loadSection(session, currentPaper, currentSectionIdx, session)
  /\ opStart' = StoredState
  /\ UNCHANGED <<failures, session, currentPaper, currentSectionIdx, questions,
                 currentQuestionIdx, answers, results, error, sectionTimeLeft, examsStarted, recorded, closedLog, selects>>
  /\ TimerRender
  /\ UNCHANGED <<practiceVars, coreVars, widgetVars>>

\* page.tsx 319-325, button at 602-608
startPaper2 ==
  /\ phase = "paper_break" /\ ~loading
  /\ session # NoSession
  /\ currentPaper' = 2
  /\ currentSectionIdx' = 0
  /\ phase' = "section"
  /\ loadSection(session, 2, 0, session)
  /\ opStart' = StoredState
  /\ UNCHANGED <<failures, session, questions, currentQuestionIdx, answers, results,
                 error, sectionTimeLeft, examsStarted, recorded,
                 closedLog, selects>>
  /\ TimerRender
  /\ UNCHANGED <<practiceVars, coreVars, widgetVars>>

(***************************************************************************)
(* Completing the exam                                                     *)
(***************************************************************************)
\* Backend completeExam as spec.md 4.2 states it: the first call completes the
\* exam and emits its attempts to the Mastery Aggregator, a later call fails
\* with AlreadyCompleted and emits nothing.
BackendCompleteExam(rec, examId) ==
  IF rec[examId] > 0 THEN rec ELSE [rec EXCEPT ![examId] = rec[examId] + 1]

\* page.tsx 331-333, 336-338
CompleteExamOk ==
  /\ call.op = "completeExam"
  /\ recorded[call.examId] = 0
  /\ recorded' = BackendCompleteExam(recorded, call.examId)
  /\ results' = call.examId
  /\ phase' = "results"
  /\ loading' = FALSE
  /\ call' = Idle
  /\ opStart' = NoOperation
  /\ UNCHANGED <<failures, session, currentPaper, currentSectionIdx, questions,
                 currentQuestionIdx, answers, error, sectionTimeLeft, examsStarted, closedLog, selects>>
  /\ TimerRender
  /\ UNCHANGED <<practiceVars, coreVars, widgetVars>>

\* Faulty variant of CompleteExamFail: the catch branch shows the results view.
CompleteExamFail_showsResults ==
  /\ failures < MaxFailures
  /\ failures' = failures + 1
  /\ call.op = "completeExam"
  /\ \E processed \in BOOLEAN :
       recorded' = IF processed THEN BackendCompleteExam(recorded, call.examId)
                                ELSE recorded
  /\ error' = "Failed to complete exam"
  /\ results' = call.examId
  /\ phase' = "results"
  /\ loading' = FALSE
  /\ call' = Idle
  /\ opStart' = NoOperation
  /\ UNCHANGED <<session, currentPaper, currentSectionIdx, questions,
                 currentQuestionIdx, answers, sectionTimeLeft,
                 examsStarted, closedLog, selects>>
  /\ TimerRender
  /\ UNCHANGED <<practiceVars, coreVars, widgetVars>>

\* page.tsx 334-338 after a network failure: the request was lost on its way,
\* or its response was lost after the backend had processed it.
CompleteExamFail ==
  /\ failures < MaxFailures
  /\ failures' = failures + 1
  /\ call.op = "completeExam"
  /\ \E processed \in BOOLEAN :
       recorded' = IF processed THEN BackendCompleteExam(recorded, call.examId)
                                ELSE recorded
  /\ error' = "Failed to complete exam"
  /\ loading' = FALSE
  /\ call' = Idle
  /\ opStart' = NoOperation
  /\ UNCHANGED <<phase, session, currentPaper, currentSectionIdx, questions,
                 currentQuestionIdx, answers, results, sectionTimeLeft,
                 examsStarted, closedLog, selects>>
  /\ TimerRender
  /\ UNCHANGED <<practiceVars, coreVars, widgetVars>>

\* page.tsx 334-338 after the backend answered AlreadyCompleted
CompleteExamRejected ==
  /\ call.op = "completeExam"
  /\ recorded[call.examId] > 0
  /\ recorded' = BackendCompleteExam(recorded, call.examId)
  /\ error' = "Failed to complete exam"
  /\ loading' = FALSE
  /\ call' = Idle
  /\ opStart' = NoOperation
  /\ UNCHANGED <<phase, session, currentPaper, currentSectionIdx, questions,
                 currentQuestionIdx, answers, results, sectionTimeLeft,
                 examsStarted, closedLog, selects, failures>>
  /\ TimerRender
  /\ UNCHANGED <<practiceVars, coreVars, widgetVars>>

\* page.tsx 713-723: Take Another Exam
TakeAnotherExam ==
  /\ phase = "results" /\ results # NoSession
  /\ phase' = "intro"
  /\ session' = NoSession
  /\ results' = NoSession
  /\ answers' = [q \in QIds |-> NoAnswer]
  /\ UNCHANGED <<failures, currentPaper, currentSectionIdx, questions, currentQuestionIdx,
                 loading, error, sectionTimeLeft, call,
                 examsStarted, recorded, closedLog, opStart, selects>>
  /\ TimerRender
  /\ UNCHANGED <<practiceVars, coreVars, widgetVars>>

ExamNext ==
  \/ startExam
  \/ StartExamOk
  \/ StartExamFail
  \/ GetSectionQuestionsOk
  \/ GetSectionQuestionsFail
  \/ GetExamOk
  \/ GetExamFail
  \/ \E answer \in Options : handleSelectAnswer(answer)
  \/ \E answer \in Options : SubmitAnswerFail(answer)
  \/ nextQuestion
  \/ prevQuestion
  \/ \E i \in 0..(MaxQuestions - 1) : navigatorDot(i)
  \/ FinishSectionClick
  \/ TimerTick
  \/ TimerEffectExpired
  \/ startNextSection
  \/ startPaper2
  \/ CompleteExamOk
  \/ CompleteExamFail
  \/ CompleteExamRejected
  \/ TakeAnotherExam

ExamSpec == ExamInit /\ [][ExamNext]_vars

\* The interval timer keeps firing while the timer is mounted, an effect runs
\* after the render that scheduled it, and every API call is answered.
ExamFairSpec ==
  /\ ExamSpec
  /\ WF_vars(TimerTick)
  /\ WF_vars(TimerEffectExpired)
  /\ WF_vars(StartExamOk \/ StartExamFail)
  /\ WF_vars(GetSectionQuestionsOk \/ GetSectionQuestionsFail)
  /\ WF_vars(GetExamOk \/ GetExamFail)
  /\ WF_vars(CompleteExamOk \/ CompleteExamFail \/ CompleteExamRejected)

(***************************************************************************)
(* The practice page (PracticeClient.tsx)                                  *)
(***************************************************************************)
\* The question lists getQuestions can return: distinct questions of the bank.
QuestionLists ==
  {qs \in UNION {[1..n -> PoolIds] : n \in 1..MaxSessionQuestions} :
     \A i, j \in DOMAIN qs : i # j => qs[i] # qs[j]}

\* question.content.multi_select (PracticeClient.tsx 125): a property of the
\* question; here the even-numbered questions are multi-select.
multi_select(questionId) == questionId % 2 = 0

\* Faulty variant of join: the elements are glued without a separator.
RECURSIVE join_noSeparator(_)
join_noSeparator(list) ==
  IF list = <<>> THEN ""
  ELSE list[1] \o join_noSeparator(Tail(list))

\* selectedAnswers.join(", "), PracticeClient.tsx 146
RECURSIVE join(_)
join(list) ==
  IF list = <<>> THEN ""
  ELSE IF Len(list) = 1 THEN list[1]
  ELSE list[1] \o ", " \o join(Tail(list))

(***************************************************************************)
(* The Answer Evaluator (spec.md 4.1) behind questionsAPI.checkAnswer       *)
(***************************************************************************)
\* the letters the answers are written with
UpperCase == <<"A", "B", "C", "T">>
LowerCase == <<"a", "b", "c", "t">>

foldChar(c) ==
  IF \E n \in DOMAIN UpperCase : UpperCase[n] = c
  THEN LowerCase[CHOOSE n \in DOMAIN UpperCase : UpperCase[n] = c]
  ELSE c

RECURSIVE casefold(_)
casefold(s) ==
  IF s = "" THEN ""
  ELSE foldChar(SubSeq(s, 1, 1)) \o casefold(SubSeq(s, 2, Len(s)))

\* leading and trailing whitespace removed
RECURSIVE trim(_)
trim(s) ==
  IF s = "" THEN ""
  ELSE IF SubSeq(s, 1, 1) = " " THEN trim(SubSeq(s, 2, Len(s)))
  ELSE IF SubSeq(s, Len(s), Len(s)) = " " THEN trim(SubSeq(s, 1, Len(s) - 1))
  ELSE s

\* raw text parsed into a list: comma-separated
RECURSIVE split(_)
split(s) ==
  IF \A n \in 1..Len(s) : SubSeq(s, n, n) # "," THEN <<s>>
  ELSE LET n == CHOOSE k \in 1..Len(s) :
                  /\ SubSeq(s, k, k) = ","
                  /\ \A m \in 1..(k - 1) : SubSeq(s, m, m) # ","
       IN  <<SubSeq(s, 1, n - 1)>> \o split(SubSeq(s, n + 1, Len(s)))

\* Faulty variant of stringRule: the comparison is not case-folded.
stringRule_noFold(submitted, canonical, case_sensitive) ==
  trim(submitted) = trim(canonical)

\* the string rule: case-folded unless case_sensitive, always trimmed
stringRule(submitted, canonical, case_sensitive) ==
  IF case_sensitive
  THEN trim(submitted) = trim(canonical)
  ELSE casefold(trim(submitted)) = casefold(trim(canonical))

\* ordered list: element-wise, in order
sameList(parsed, value, case_sensitive) ==
  /\ Len(parsed) = Len(value)
  /\ \A n \in DOMAIN value : stringRule(parsed[n], value[n], case_sensitive)

\* unordered set: every canonical element present, no extra element
sameSet(parsed, value, case_sensitive) ==
  /\ \A n \in DOMAIN value : \E m \in DOMAIN parsed :
        stringRule(parsed[m], value[n], case_sensitive)
  /\ \A m \in DOMAIN parsed : \E n \in DOMAIN value :
        stringRule(parsed[m], value[n], case_sensitive)

\* The answer specifications of the question bank.  value is a list also for
\* a string-valued question (one element).
AnswerSpecs ==
  <<[shape |-> "string", value |-> <<"a">>, accept_variations |-> {"cat"},
     case_sensitive |-> FALSE, order_matters |-> FALSE],
    [shape |-> "list", value |-> <<"A", "B">>, accept_variations |-> {},
     case_sensitive |-> FALSE, order_matters |-> FALSE],
    [shape |-> "string", value |-> <<"A">>, accept_variations |-> {},
     case_sensitive |-> TRUE, order_matters |-> FALSE],
    [shape |-> "list", value |-> <<"A", "B">>, accept_variations |-> {},
     case_sensitive |-> FALSE, order_matters |-> TRUE]>>

\* evaluate(submitted, spec) -> {correct, normalized_correct_value}
evaluate(submitted, spec) ==
  [correct |->
     IF spec.shape = "string"
     THEN \E c \in {spec.value[1]} \cup spec.accept_variations :
             stringRule(submitted, c, spec.case_sensitive)
     ELSE IF spec.order_matters
     THEN sameList(split(submitted), spec.value, spec.case_sensitive)
     ELSE sameSet(split(submitted), spec.value, spec.case_sensitive),
   normalized_correct_value |-> join(spec.value)]

\* score before and after the hint penalty, in tenths
BaseScore == 10
HintPenalty == 5

\* Faulty variant of Score: no floor at 0.
Score_noFloor(correct, hints_used) ==
  (IF correct THEN BaseScore ELSE 0) - hints_used * HintPenalty

\* score = max(0, base_score - hints_used * hint_penalty)
Score(correct, hints_used) ==
  LET base_score == IF correct THEN BaseScore ELSE 0
      penalised  == base_score - hints_used * HintPenalty
  IN  IF penalised > 0 THEN penalised ELSE 0

\* questionsAPI.checkAnswer (api.ts 314-322): the backend evaluates the raw
\* text against the question's answer specification.
checkAnswer(questionId, finalAnswer) ==
  LET verdict == evaluate(finalAnswer, AnswerSpecs[questionId])
  IN  [is_correct |-> verdict.correct,
       correct_answer |-> verdict.normalized_correct_value]

\* PracticeClient.tsx 90-97 and 237-244
NewPractice(qs, now) ==
  [questions |-> qs, currentIndex |-> 0, answers |-> {},
   hintsUsed |-> [q \in PoolIds |-> 0], startTime |-> now]

\* new Map(prev.answers).set(id, entry), PracticeClient.tsx 160-161
MapSet(map, id, entry) ==
  {a \in map : a.id # id} \cup {[id |-> id, answer |-> entry.answer,
                                 result |-> entry.result]}

Remove(list, i) == SubSeq(list, 1, i - 1) \o SubSeq(list, i + 1, Len(list))

\* PracticeClient.tsx 120; only read where HasQuestion holds
HasQuestion ==
  practice.startTime # 0 /\ practice.currentIndex < Len(practice.questions)

currentQuestion == practice.questions[practice.currentIndex + 1]

\* Faulty variant of Results: an answer counts as correct by its penalised
\* score.
Results_byScore(answersMap) ==
  LET total   == Cardinality(answersMap)
      correct == Cardinality({a \in answersMap : a.result.score > 0})
  IN  [correct |-> correct, total |-> total,
       accuracy |-> IF total > 0 THEN <<correct * 100, total>> ELSE <<0, 1>>]

\* getResults over a given answers Map, PracticeClient.tsx 254-263.  accuracy
\* is (correct / answers.length) * 100, kept as the fraction
\* <<numerator, denominator>>.
Results(answersMap) ==
  LET total   == Cardinality(answersMap)
      correct == Cardinality({a \in answersMap : a.result.is_correct})
  IN  [correct |-> correct, total |-> total,
       accuracy |-> IF total > 0 THEN <<correct * 100, total>> ELSE <<0, 1>>]

\* PracticeClient.tsx 254-263
getResults == Results(practice.answers)

\* PracticeClient.tsx 265-298: the loading screen, the error screen and the
\* session-complete screen come before the question view.
CompleteView ==
  ~practiceLoading /\ practiceError = "" /\ sessionComplete
  /\ practice.startTime # 0

MainView ==
  ~practiceLoading /\ practiceError = "" /\ ~CompleteView /\ HasQuestion

\* The practice page alone, mounted: the load effect (75-107) has started.
PracticeInit == ExamCells /\ PracticeCells /\ CoreCells /\ WidgetCells /\ loadCall = "load"

\* PracticeClient.tsx 79-103
LoadQuestionsOk ==
  /\ loadCall = "load"
  /\ \E qs \in QuestionLists \cup {<<>>} :
       IF qs = <<>>
       THEN /\ practiceError' = "No questions available for this subject yet."
            /\ UNCHANGED <<practice, sessionsStarted, revealed>>
       ELSE /\ practice' = NewPractice(qs, sessionsStarted + 1)
            /\ sessionsStarted' = sessionsStarted + 1
            /\ revealed' = [q \in PoolIds |-> {}]
            /\ UNCHANGED practiceError
  /\ practiceLoading' = FALSE
  /\ loadCall' = "none"
  /\ UNCHANGED <<selectedAnswers, showResult, currentResult, showHint,
                 currentHints, sessionComplete, checks, hintCalls, hintRequests>>
  /\ UNCHANGED <<examVars, coreVars, widgetVars>>

\* PracticeClient.tsx 98-103
LoadQuestionsFail ==
  /\ loadCall = "load"
  /\ practiceError' = "Failed to load questions. Is the backend running?"
  /\ practiceLoading' = FALSE
  /\ loadCall' = "none"
  /\ UNCHANGED <<practice, selectedAnswers, showResult, currentResult, showHint,
                 currentHints, sessionComplete, checks, hintCalls,
                 sessionsStarted, hintRequests>>
  /\ UNCHANGED revealed
  /\ UNCHANGED <<examVars, coreVars, widgetVars>>

\* handleSelectAnswer, PracticeClient.tsx 122-138; option buttons at 582-583
PracticeSelectAnswer(answer) ==
  /\ MainView
  /\ ~showResult
  /\ selectedAnswers' =
       IF multi_select(currentQuestion)
       THEN IF \E n \in DOMAIN selectedAnswers : selectedAnswers[n] = answer
            THEN SelectSeq(selectedAnswers, LAMBDA a : a # answer)
            ELSE Append(selectedAnswers, answer)
       ELSE <<answer>>
  /\ UNCHANGED <<practiceLoading, practiceError, practice, showResult,
                 currentResult, showHint, currentHints, sessionComplete,
                 loadCall, checks, hintCalls, sessionsStarted, hintRequests>>
  /\ UNCHANGED revealed
  /\ UNCHANGED <<examVars, coreVars, widgetVars>>

\* PracticeClient.tsx 140-152, up to the await; button at 719-731
handleSubmitAnswer ==
  /\ MainView
  /\ ~showResult
  /\ selectedAnswers # <<>>
  /\ Len(checks) < MaxInFlight
  /\ checks' = Append(checks,
                 [questionId |-> currentQuestion,
                  finalAnswer |-> join(selectedAnswers),
                  hintsUsed |-> practice.hintsUsed[currentQuestion]])
  /\ UNCHANGED <<practiceLoading, practiceError, practice, selectedAnswers,
                 showResult, currentResult, showHint, currentHints,
                 sessionComplete, loadCall, hintCalls, sessionsStarted,
                 hintRequests>>
  /\ UNCHANGED revealed
  /\ UNCHANGED <<examVars, coreVars, widgetVars>>

\* PracticeClient.tsx 154-163: the response to any outstanding request.  The
\* continuation holds the question and the answer of the click that sent it.
CheckAnswerOk ==
  /\ \E i \in 1..Len(checks) :
       LET c      == checks[i]
           result == checkAnswer(c.questionId, c.finalAnswer)
       IN  /\ currentResult' = result
           /\ showResult' = TRUE
           /\ practice' =
                IF practice.startTime = 0 THEN practice
                ELSE [practice EXCEPT !.answers =
                        MapSet(@, c.questionId,
                               [answer |-> c.finalAnswer, result |-> result])]
           /\ checks' = Remove(checks, i)
  /\ UNCHANGED <<practiceLoading, practiceError, selectedAnswers, showHint,
                 currentHints, sessionComplete, loadCall, hintCalls,
                 sessionsStarted, hintRequests>>
  /\ UNCHANGED revealed
  /\ UNCHANGED <<examVars, coreVars, widgetVars>>

\* PracticeClient.tsx 164-166: the failure is logged, nothing is stored
CheckAnswerFail ==
  /\ \E i \in 1..Len(checks) : checks' = Remove(checks, i)
  /\ UNCHANGED <<practiceLoading, practiceError, practice, selectedAnswers,
                 showResult, currentResult, showHint, currentHints,
                 sessionComplete, loadCall, hintCalls, sessionsStarted,
                 hintRequests>>
  /\ UNCHANGED revealed
  /\ UNCHANGED <<examVars, coreVars, widgetVars>>

\* PracticeClient.tsx 169-176, up to the await; button at 704-706
handleGetHintWithin(limit) ==
  /\ MainView
  /\ ~showResult
  /\ practice.hintsUsed[currentQuestion] < MaxHintLevel
  /\ hintRequests < limit
  /\ hintCalls' = Append(hintCalls,
                    [questionId |-> currentQuestion,
                     currentLevel |-> practice.hintsUsed[currentQuestion] + 1])
  /\ hintRequests' = hintRequests + 1
  /\ UNCHANGED <<practiceLoading, practiceError, practice, selectedAnswers,
                 showResult, currentResult, showHint, currentHints,
                 sessionComplete, loadCall, checks, sessionsStarted>>
  /\ UNCHANGED revealed
  /\ UNCHANGED <<examVars, coreVars, widgetVars>>

handleGetHint == handleGetHintWithin(MaxHintRequests)

\* PracticeClient.tsx 177-185; currentHints is the level the hints reach
GetHintsOk ==
  /\ \E i \in 1..Len(hintCalls) :
       LET h == hintCalls[i]
       IN  /\ currentHints' = h.currentLevel
           /\ showHint' = TRUE
           /\ practice' =
                IF practice.startTime = 0 THEN practice
                ELSE [practice EXCEPT !.hintsUsed[h.questionId] = h.currentLevel]
           /\ revealed' = [revealed EXCEPT ![h.questionId] = @ \cup {h.currentLevel}]
           /\ hintCalls' = Remove(hintCalls, i)
  /\ UNCHANGED <<practiceLoading, practiceError, selectedAnswers, showResult,
                 currentResult, sessionComplete, loadCall, checks,
                 sessionsStarted, hintRequests>>
  /\ UNCHANGED <<examVars, coreVars, widgetVars>>

\* PracticeClient.tsx 186-188
GetHintsFail ==
  /\ \E i \in 1..Len(hintCalls) : hintCalls' = Remove(hintCalls, i)
  /\ UNCHANGED <<practiceLoading, practiceError, practice, selectedAnswers,
                 showResult, currentResult, showHint, currentHints,
                 sessionComplete, loadCall, checks, sessionsStarted,
                 hintRequests>>
  /\ UNCHANGED revealed
  /\ UNCHANGED <<examVars, coreVars, widgetVars>>

\* PracticeClient.tsx 191-210; button at 733-741, shown with the result
handleNextQuestion ==
  /\ MainView
  /\ showResult
  /\ IF practice.currentIndex >= Len(practice.questions) - 1
     THEN /\ sessionComplete' = TRUE
          /\ UNCHANGED <<practice, selectedAnswers, showResult, currentResult,
                         showHint, currentHints>>
     ELSE /\ practice' = [practice EXCEPT !.currentIndex = @ + 1]
          /\ selectedAnswers' = <<>>
          /\ showResult' = FALSE
          /\ currentResult' = NoResult
          /\ showHint' = FALSE
          /\ currentHints' = 0
          /\ UNCHANGED sessionComplete
  /\ UNCHANGED <<practiceLoading, practiceError, loadCall, checks, hintCalls,
                 sessionsStarted, hintRequests>>
  /\ UNCHANGED revealed
  /\ UNCHANGED <<examVars, coreVars, widgetVars>>

\* PracticeClient.tsx 212-230, up to the await; Practice Again button at 351
handleRestart ==
  /\ CompleteView
  /\ sessionsStarted < MaxSessions
  /\ practiceLoading' = TRUE
  /\ sessionComplete' = FALSE
  /\ selectedAnswers' = <<>>
  /\ showResult' = FALSE
  /\ currentResult' = NoResult
  /\ showHint' = FALSE
  /\ currentHints' = 0
  /\ loadCall' = "restart"
  /\ UNCHANGED <<practiceError, practice, checks, hintCalls, sessionsStarted,
                 hintRequests>>
  /\ UNCHANGED revealed
  /\ UNCHANGED <<examVars, coreVars, widgetVars>>

\* PracticeClient.tsx 226-250
RestartOk ==
  /\ loadCall = "restart"
  /\ \E qs \in QuestionLists \cup {<<>>} :
       IF qs = <<>>
       THEN /\ practiceError' = "No questions available for this subject yet."
            /\ UNCHANGED <<practice, sessionsStarted, revealed>>
       ELSE /\ practice' = NewPractice(qs, sessionsStarted + 1)
            /\ sessionsStarted' = sessionsStarted + 1
            /\ revealed' = [q \in PoolIds |-> {}]
            /\ UNCHANGED practiceError
  /\ practiceLoading' = FALSE
  /\ loadCall' = "none"
  /\ UNCHANGED <<selectedAnswers, showResult, currentResult, showHint,
                 currentHints, sessionComplete, checks, hintCalls, hintRequests>>
  /\ UNCHANGED <<examVars, coreVars, widgetVars>>

\* PracticeClient.tsx 245-250
RestartFail ==
  /\ loadCall = "restart"
  /\ practiceError' = "Failed to load questions. Is the backend running?"
  /\ practiceLoading' = FALSE
  /\ loadCall' = "none"
  /\ UNCHANGED <<practice, selectedAnswers, showResult, currentResult, showHint,
                 currentHints, sessionComplete, checks, hintCalls,
                 sessionsStarted, hintRequests>>
  /\ UNCHANGED revealed
  /\ UNCHANGED <<examVars, coreVars, widgetVars>>

PracticeNext ==
  \/ LoadQuestionsOk
  \/ LoadQuestionsFail
  \/ \E answer \in Options : PracticeSelectAnswer(answer)
  \/ handleSubmitAnswer
  \/ CheckAnswerOk
  \/ CheckAnswerFail
  \/ handleGetHint
  \/ GetHintsOk
  \/ GetHintsFail
  \/ handleNextQuestion
  \/ handleRestart
  \/ RestartOk
  \/ RestartFail

PracticeSpec == PracticeInit /\ [][PracticeNext]_vars

(***************************************************************************)
(* The evaluator on its own: answers of every shape are submitted           *)
(***************************************************************************)
\* what a user types for a string-valued question
RawStrings == {"a", "A", " a ", "b", "cat", "CAT", " Cat", "ca"}

\* what a user selects for a list-valued question, in the order of selection
Elements == {"A", "B", "C"}
Selections == UNION {[1..n -> Elements] : n \in 1..MaxSelected}

EvaluatorInit == ExamCells /\ PracticeCells /\ CoreCells /\ WidgetCells /\ loadCall = "none"

\* submitPracticeAnswer(sessionId, questionId, answer, hintsUsed)
\*   -> {correct, score, canonicalAnswer}, as far as the evaluator is concerned
EvaluateAnswer ==
  /\ \E q \in DOMAIN AnswerSpecs, h \in 0..MaxHintLevel :
       \E elements \in (IF AnswerSpecs[q].shape = "string"
                        THEN {<<r>> : r \in RawStrings}
                        ELSE Selections) :
          LET submitted == join(elements)
              verdict   == evaluate(submitted, AnswerSpecs[q])
          IN  lastEval' = [question |-> q, elements |-> elements,
                           submitted |-> submitted, hints_used |-> h,
                           correct |-> verdict.correct,
                           score |-> Score(verdict.correct, h)]
  /\ UNCHANGED <<coreSession, records, lock, job, expected, completions>>
  /\ UNCHANGED <<examVars, practiceVars, widgetVars>>

EvaluatorNext == EvaluateAnswer

EvaluatorSpec == EvaluatorInit /\ [][EvaluatorNext]_vars

(***************************************************************************)
(* One practice session of the core (spec.md 4.2)                           *)
(***************************************************************************)
\* the session's question list, fixed at creation
SessionQuestions == <<1, 2, 3>>

\* what is submitted for a question: a right and a wrong answer
SessionAnswers == <<{"A", "b"}, {"B, A", "A"}, {"A", "a"}>>

RECURSIVE TotalScore(_)
TotalScore(attempts) ==
  IF attempts = {} THEN 0
  ELSE LET a == CHOOSE x \in attempts : TRUE
       IN  a.result.score + TotalScore(attempts \ {a})

SessionInit == ExamCells /\ PracticeCells /\ CoreCells /\ WidgetCells /\ loadCall = "none"

\* submit_answer(question_id, answer, hints_used): legal only while Active,
\* for a question of the list that has no Attempt yet
SubmitPracticeAnswer ==
  /\ ~coreSession.completed
  /\ \E n \in DOMAIN SessionQuestions, h \in 0..MaxHintLevel :
       \E answer \in SessionAnswers[n] :
          LET q       == SessionQuestions[n]
              verdict == evaluate(answer, AnswerSpecs[q])
          IN  /\ \A a \in coreSession.attempts : a.id # q
              /\ coreSession' =
                   [coreSession EXCEPT !.attempts = @ \cup
                      {[id |-> q, answer |-> answer, hints_used |-> h,
                        result |-> [is_correct |-> verdict.correct,
                                    correct_answer |-> verdict.normalized_correct_value,
                                    score |-> Score(verdict.correct, h)]]}]
  /\ UNCHANGED <<lastEval, records, lock, job, expected, completions>>
  /\ UNCHANGED <<examVars, practiceVars, widgetVars>>

\* complete(): legal only while Active; the statistics of the session.  The
\* counts and the accuracy are what the results screen computes (getResults),
\* the total score is the sum of the attempts' scores.
CompletePracticeSession ==
  /\ ~coreSession.completed
  /\ LET r == Results(coreSession.attempts) IN
       coreSession' =
         [coreSession EXCEPT
            !.completed = TRUE,
            !.result = [total_correct |-> r.correct, total |-> r.total,
                        accuracy |-> r.accuracy,
                        total_score |-> TotalScore(coreSession.attempts)]]
  /\ UNCHANGED <<lastEval, records, lock, job, expected, completions>>
  /\ UNCHANGED <<examVars, practiceVars, widgetVars>>

SessionNext ==
  \/ SubmitPracticeAnswer
  \/ CompletePracticeSession

SessionSpec == SessionInit /\ [][SessionNext]_vars

(***************************************************************************)
(* The Mastery Aggregator (spec.md 4.3, 5)                                  *)
(***************************************************************************)
\* the attempts a completed session hands over, each with its
\* (subject, question type) group and its correctness
Batches ==
  UNION {[1..n -> [group : Groups, is_correct : BOOLEAN]] : n \in 1..MaxBatchSize}

InGroup(batch, g) == {n \in DOMAIN batch : batch[n].group = g}

\* Faulty variant of RecordAttempts: the counters are set to the batch's counts.
RecordAttempts_resets(recs, batch, timestamp) ==
  [g \in Groups |->
     LET size    == Cardinality(InGroup(batch, g))
         correct == Cardinality({n \in InGroup(batch, g) : batch[n].is_correct})
     IN  IF size = 0 THEN recs[g]
         ELSE [total_attempted |-> size,
               total_correct |-> correct,
               mastery |-> <<correct, size>>,
               last_practiced |-> timestamp]]

\* Faulty variant of RecordAttempts: mastery is the accuracy of the latest
\* batch.
RecordAttempts_latestBatch(recs, batch, timestamp) ==
  [g \in Groups |->
     LET size    == Cardinality(InGroup(batch, g))
         correct == Cardinality({n \in InGroup(batch, g) : batch[n].is_correct})
     IN  IF size = 0 THEN recs[g]
         ELSE [total_attempted |-> recs[g].total_attempted + size,
               total_correct |-> recs[g].total_correct + correct,
               mastery |-> <<correct, size>>,
               last_practiced |-> timestamp]]

\* The increment rule of record_attempts on one user's records: per group of
\* the batch the counters grow by the group's size and correct count, and
\* mastery is correct / attempted over the lifetime totals.
RecordAttempts(recs, batch, timestamp) ==
  [g \in Groups |->
     LET size    == Cardinality(InGroup(batch, g))
         correct == Cardinality({n \in InGroup(batch, g) : batch[n].is_correct})
     IN  IF size = 0 THEN recs[g]
         ELSE [total_attempted |-> recs[g].total_attempted + size,
               total_correct |-> recs[g].total_correct + correct,
               mastery |-> <<recs[g].total_correct + correct,
                             recs[g].total_attempted + size>>,
               last_practiced |-> timestamp]]

RECURSIVE SumOver(_, _)
SumOver(groups, field) ==
  IF groups = {} THEN 0
  ELSE LET g == CHOOSE x \in groups : TRUE
       IN  field[g] + SumOver(groups \ {g}, field)

\* data.accuracy is optional in SubjectProgress (api.ts 201-207)
NoAccuracy == <<0, 0>>

\* The SubjectProgress of a user's subject: the counters of its question
\* types added up; mastery is the attempt-weighted average of the types'
\* masteries, that is total_correct / total_attempted.
SubjectProgress(u, subject) ==
  LET types     == {g \in Groups : g[1] = subject}
      attempted == SumOver(types, [g \in Groups |-> records[u][g].total_attempted])
      correct   == SumOver(types, [g \in Groups |-> records[u][g].total_correct])
  IN  [mastery |-> IF attempted > 0 THEN <<correct, attempted>> ELSE <<0, 1>>,
       accuracy |-> NoAccuracy,
       total_attempted |-> attempted, total_correct |-> correct]

\* research/page.tsx 340:
\* data.accuracy ?? (data.total_attempted > 0
\*                     ? data.total_correct / data.total_attempted : 0)
ProgressPageAccuracy(data) ==
  IF data.accuracy # NoAccuracy THEN data.accuracy
  ELSE IF data.total_attempted > 0
  THEN <<data.total_correct, data.total_attempted>>
  ELSE <<0, 1>>

AggregatorInit == ExamCells /\ PracticeCells /\ CoreCells /\ WidgetCells /\ loadCall = "none"

\* a session of some user completes on a device and hands its attempts over
CompleteSession(d) ==
  /\ job[d].pc = "idle"
  /\ completions < MaxCompletions
  /\ \E u \in Users, batch \in Batches :
       job' = [job EXCEPT ![d] = [IdleJob EXCEPT !.pc = "waiting", !.user = u,
                                                 !.batch = batch,
                                                 !.timestamp = completions + 1]]
  /\ completions' = completions + 1
  /\ UNCHANGED <<lastEval, coreSession, records, lock, expected>>
  /\ UNCHANGED <<examVars, practiceVars, widgetVars>>

\* Faulty variant of BeginRecordAttempts: the user's boundary is not awaited.
BeginRecordAttempts_noBoundary(d) ==
  /\ job[d].pc = "waiting"
  /\ lock' = [lock EXCEPT ![job[d].user] = d]
  /\ job' = [job EXCEPT ![d].pc = "locked",
                        ![d].snapshot = records[job[d].user]]
  /\ UNCHANGED <<lastEval, coreSession, records, expected, completions>>
  /\ UNCHANGED <<examVars, practiceVars, widgetVars>>

\* record_attempts enters the user's serialization boundary and reads the
\* user's records
BeginRecordAttempts(d) ==
  /\ job[d].pc = "waiting"
  /\ lock[job[d].user] = "free"
  /\ lock' = [lock EXCEPT ![job[d].user] = d]
  /\ job' = [job EXCEPT ![d].pc = "locked",
                        ![d].snapshot = records[job[d].user]]
  /\ UNCHANGED <<lastEval, coreSession, records, expected, completions>>
  /\ UNCHANGED <<examVars, practiceVars, widgetVars>>

\* record_attempts writes the updated records and leaves the boundary
CommitRecordAttempts(d) ==
  /\ job[d].pc = "locked"
  /\ records' = [records EXCEPT ![job[d].user] =
                   RecordAttempts(job[d].snapshot, job[d].batch, job[d].timestamp)]
  /\ expected' = [expected EXCEPT ![job[d].user] =
                   RecordAttempts(@, job[d].batch, job[d].timestamp)]
  /\ lock' = [lock EXCEPT ![job[d].user] = "free"]
  /\ job' = [job EXCEPT ![d] = IdleJob]
  /\ UNCHANGED <<lastEval, coreSession, completions>>
  /\ UNCHANGED <<examVars, practiceVars, widgetVars>>

AggregatorNext ==
  \/ \E d \in Devices : CompleteSession(d)
  \/ \E d \in Devices : BeginRecordAttempts(d)
  \/ \E d \in Devices : CommitRecordAttempts(d)

AggregatorSpec == AggregatorInit /\ [][AggregatorNext]_vars

(***************************************************************************)
(* Properties of the mock exam                                             *)
(***************************************************************************)
\* The canonical order of the sections: Paper 1 sections 1..4, Paper 2
\* sections 1..4.
CanonicalOrder ==
  [n \in 1..(NumPapers * SectionsPerPaper) |->
     <<((n - 1) \div SectionsPerPaper) + 1, (n - 1) % SectionsPerPaper>>]

SectionNumber(paperNum, sectionIdx) ==
  (paperNum - 1) * SectionsPerPaper + sectionIdx + 1

IsPrefix(a, b) == Len(a) <= Len(b) /\ \A n \in 1..Len(a) : a[n] = b[n]

\* The place of a state in the sequence intro, P1S1, break, P1S2, ..., P1S4,
\* PaperBreak, P2S1, ..., P2S4, Completed.
Rank(ph, paperNum, sectionIdx) ==
  CASE ph = "intro" -> 0
    [] ph = "section" -> 2 * SectionNumber(paperNum, sectionIdx) - 1
    [] ph = "section_break" -> 2 * SectionNumber(paperNum, sectionIdx) - 2
    [] ph = "paper_break" -> 2 * SectionsPerPaper
    [] ph = "results" -> 2 * NumPapers * SectionsPerPaper

RankNow == Rank(phase, currentPaper, currentSectionIdx)

ExamQuestions(examId, paperNum, sectionIdx) ==
  {getSectionQuestions(examId, paperNum, sectionIdx)[k] : k \in 1..MaxQuestions}

\* C1: within one exam the position only advances one step at a time through
\* intro, P1 sections 1..4 (with their breaks), PaperBreak, P2 sections 1..4,
\* Completed; a section is in progress only when exactly the sections before it
\* (and at most itself) have been closed, in canonical order.
C1_SectionOrder ==
  /\ [](/\ IsPrefix(closedLog, CanonicalOrder)
        /\ phase = "section" =>
             Len(closedLog) \in {SectionNumber(currentPaper, currentSectionIdx) - 1,
                                 SectionNumber(currentPaper, currentSectionIdx)}
        /\ phase = "section_break" =>
             Len(closedLog) = SectionNumber(currentPaper, currentSectionIdx) - 1)
  /\ [][\/ Rank(phase', currentPaper', currentSectionIdx') = RankNow
        \/ Rank(phase', currentPaper', currentSectionIdx') = RankNow + 1
        \/ phase = "results" /\ phase' = "intro"]_vars

C1_Witness ==
  /\ phase = "results"
  /\ closedLog = CanonicalOrder

\* C2 (as claimed): an answer is only ever stored or changed for a question of
\* the section the exam is currently in.
C2_OnlyCurrentSection ==
  [][\A q \in QIds :
       (answers'[q] # answers[q] /\ answers'[q] # NoAnswer) =>
          /\ phase = "section"
          /\ q \in ExamQuestions(session, currentPaper, currentSectionIdx)]_vars

\* C4: an exam's attempts reach the Mastery Aggregator at most once, however
\* often completeExam is requested, and exactly once when results are shown.
C4_RecordedOnce ==
  /\ \A e \in ExamIds : recorded[e] <= 1
  /\ phase = "results" => results # NoSession /\ recorded[results] = 1

\* completeExam is requested again for an exam the backend already completed
C4_Witness ==
  /\ call.op = "completeExam"
  /\ recorded[call.examId] = 1

\* C5: completeExam is pending, or the results are shown, only with all eight
\* sections closed in canonical order and the exam in Paper 2, last section.
C5_CompleteOnlyAtEnd ==
  (call.op = "completeExam" \/ phase = "results") =>
     /\ closedLog = CanonicalOrder
     /\ currentPaper = NumPapers
     /\ currentSectionIdx = SectionsPerPaper - 1

C5_Witness ==
  /\ phase = "results"
  /\ recorded[results] = 1

\* A step in which the timer runs out / the Finish Section button is pressed.
TimerExpiryStep == (TimerTick /\ remaining <= 1) \/ TimerEffectExpired
FinishRequestStep == FinishSectionClick

\* What closing a section must do, as a function of the state before it:
\* answers stay as they are, and the exam goes to the break before the next
\* section, to the paper break, or to completion.
ClosesSection ==
  /\ answers' = answers
  /\ questions' = questions
  /\ currentPaper' = currentPaper
  /\ IF currentSectionIdx + 1 < SectionsPerPaper
     THEN phase' = "section_break" /\ currentSectionIdx' = currentSectionIdx + 1
                                   /\ call' = call
     ELSE IF currentPaper = 1
     THEN phase' = "paper_break" /\ currentSectionIdx' = currentSectionIdx
                                 /\ call' = call
     ELSE phase' = "section" /\ currentSectionIdx' = currentSectionIdx
                             /\ call'.op = "completeExam" /\ loading'

\* C6: timer expiry and an explicit finish request close a section alike: the
\* successor is the same function of the state, answers are left untouched.
C6_ExpiryEqualsFinish ==
  [][(TimerExpiryStep \/ FinishRequestStep) => ClosesSection]_vars

\* Paper 1 Section 1 closed by the timer with one question answered and the
\* other not: the exam stands before Paper 1 Section 2.
C6_Witness ==
  /\ phase = "section_break" /\ currentPaper = 1 /\ currentSectionIdx = 1
  /\ remaining = 0
  /\ session # NoSession
  /\ \E q1, q2 \in ExamQuestions(session, 1, 0) :
       answers[q1] # NoAnswer /\ answers[q2] = NoAnswer

\* C7 (as claimed): a section that has been entered is eventually left for the
\* next break or for the results.
C7_EverySectionCloses ==
  \A p \in Papers : \A i \in SectionIdxs :
    (phase = "section" /\ currentPaper = p /\ currentSectionIdx = i)
      ~> (phase \in {"section_break", "paper_break", "results"})

\* A step in which a pending operation fails.
FailureStep ==
  \/ StartExamFail
  \/ GetSectionQuestionsFail
  \/ GetExamFail
  \/ CompleteExamFail
  \/ CompleteExamRejected

\* C10 (as claimed): a failed operation leaves phase, paper, section index,
\* question list and section time as they were when the operation began.
C10_FailureIsNoOp ==
  [][FailureStep => StoredState' = opStart]_vars

\* C11 (as claimed): when an answer submission is rejected or fails, the
\* failure is reported (the page's error is set) and the answer recorded for
\* the question is what it was before the submission.
C11_RejectionReported ==
  [][\A answer \in Options :
       SubmitAnswerFail(answer) =>
          /\ error' # ""
          /\ answers'[questions[currentQuestionIdx + 1]]
                = answers[questions[currentQuestionIdx + 1]]]_vars

\* C13: whenever the Finish Section button is on screen, pressing it closes
\* the section, whatever number of its questions (zero included) is answered;
\* from every other question the way to the button (Next) is open.
C13_FinishAlwaysHonored ==
  /\ (Mounted /\ currentQuestionIdx = Len(questions) - 1)
        => ENABLED (FinishSectionClick /\ ClosesSection)
  /\ (Mounted /\ currentQuestionIdx < Len(questions) - 1) => ENABLED nextQuestion

\* Paper 1 Section 1 closed by the button, time left, no question answered
C13_Witness ==
  /\ phase = "section_break" /\ currentPaper = 1 /\ currentSectionIdx = 1
  /\ remaining > 0
  /\ closedLog = <<<<1, 0>>>>
  /\ \A q \in QIds : answers[q] = NoAnswer

(***************************************************************************)
(* Properties of the practice page                                         *)
(***************************************************************************)
\* C3: within a practice session, a question's stored Attempt never changes
\* once it exists: a second submission for the question is rejected and
\* leaves the entry as it was.
C3_StoredAttemptKept ==
  [][practice'.startTime = practice.startTime
       => \A a \in practice.answers : a \in practice'.answers]_vars

\* C8: while a practice session is completed, its recorded attempts and the
\* statistics derived from them (correct, total, accuracy) do not change.
C8_CompletedImmutable ==
  [][(sessionComplete /\ sessionComplete'
        /\ practice'.startTime = practice.startTime)
       => (practice'.answers = practice.answers /\ getResults' = getResults)]_vars

\* C9: a practice session holds Attempts only for questions of its own
\* question list.
C9_OwnQuestionsOnly ==
  \A a \in practice.answers :
     \E n \in DOMAIN practice.questions : practice.questions[n] = a.id

\* C12 (as claimed): at no time are two answer submissions of the practice
\* page in flight together.
C12_OneSubmissionInFlight == Len(checks) <= 1

(***************************************************************************)
(* Properties of the evaluator                                             *)
(***************************************************************************)
unfoldChar(c) ==
  IF \E n \in DOMAIN LowerCase : LowerCase[n] = c
  THEN UpperCase[CHOOSE n \in DOMAIN LowerCase : LowerCase[n] = c]
  ELSE c

RECURSIVE upper(_)
upper(s) ==
  IF s = "" THEN ""
  ELSE unfoldChar(SubSeq(s, 1, 1)) \o upper(SubSeq(s, 2, Len(s)))

Reverse(list) == [n \in 1..Len(list) |-> list[Len(list) + 1 - n]]

\* C14: the score of an attempt is max(0, base - hints_used * penalty) with
\* base 1.0 for a correct and 0.0 for an incorrect answer (in tenths: 10, 0,
\* penalty 5): never negative, never above the base, 1.0 for a correct answer
\* after 0 hints, 0.0 after 2 hints, 0.0 for an incorrect answer.
C14_ScoreRule ==
  lastEval.question # 0 =>
    LET base == IF lastEval.correct THEN 10 ELSE 0 IN
    /\ lastEval.score >= 0
    /\ lastEval.score <= base
    /\ lastEval.score >= base - lastEval.hints_used * 5
    /\ (lastEval.score > 0 => lastEval.score = base - lastEval.hints_used * 5)
    /\ (lastEval.correct /\ lastEval.hints_used = 0 => lastEval.score = 10)
    /\ (lastEval.correct /\ lastEval.hints_used = 2 => lastEval.score = 0)
    /\ (~lastEval.correct => lastEval.score = 0)

\* a correct answer after two hints scores 0.0
C14_Witness ==
  /\ lastEval.question # 0
  /\ lastEval.correct /\ lastEval.hints_used = 2 /\ lastEval.score = 0

\* C19: for a string-valued question with case_sensitive = false, the verdict
\* on a submission is the verdict on its upper-case and on its lower-case form.
C19_CaseFolded ==
  (lastEval.question # 0
     /\ AnswerSpecs[lastEval.question].shape = "string"
     /\ ~AnswerSpecs[lastEval.question].case_sensitive)
  => /\ evaluate(upper(lastEval.submitted), AnswerSpecs[lastEval.question]).correct
          = evaluate(casefold(lastEval.submitted), AnswerSpecs[lastEval.question]).correct
     /\ lastEval.correct
          = evaluate(casefold(lastEval.submitted), AnswerSpecs[lastEval.question]).correct

\* an accepted variation, typed in upper case, is judged correct
C19_Witness ==
  /\ lastEval.question = 1
  /\ lastEval.submitted = "CAT"
  /\ lastEval.correct

CorrectAttempts == {a \in coreSession.attempts : a.result.is_correct}

Answered(q, correct, hints) ==
  \E a \in coreSession.attempts :
     a.id = q /\ a.result.is_correct = correct /\ a.hints_used = hints

\* Q1 correct with 0 hints, Q2 correct with 2 hints, Q3 incorrect with 1 hint
Scenario ==
  /\ Cardinality(coreSession.attempts) = 3
  /\ Answered(1, TRUE, 0) /\ Answered(2, TRUE, 2) /\ Answered(3, FALSE, 1)

\* C15: on completion the accuracy (in percent) is the number of correct
\* attempts divided by the number of attempts, whatever the hints and the
\* scores were, and the total score is the sum of the attempts' scores; in the
\* three-question scenario the accuracy is 2/3 and the total score 1.0.
C15_AccuracyByCorrectness ==
  coreSession.completed =>
    LET result == coreSession.result IN
    /\ result.accuracy[1] * Cardinality(coreSession.attempts)
         = 100 * Cardinality(CorrectAttempts) * result.accuracy[2]
    /\ result.total_score = TotalScore(coreSession.attempts)
    /\ result.total_score <= BaseScore * Cardinality(CorrectAttempts)
    /\ Scenario => /\ 3 * result.accuracy[1] = 2 * 100 * result.accuracy[2]
                   /\ result.total_score = 10

\* the three-question scenario, completed
C15_Witness ==
  /\ coreSession.completed
  /\ Scenario

(***************************************************************************)
(* Properties of the aggregator                                            *)
(***************************************************************************)
\* C16: for every (user, subject, question type) the counters total_attempted
\* and total_correct never decrease.
C16_CountersMonotone ==
  [][\A u \in Users, g \in Groups :
       /\ records'[u][g].total_attempted >= records[u][g].total_attempted
       /\ records'[u][g].total_correct >= records[u][g].total_correct]_vars

\* a record that two batches have added to
C16_Witness ==
  \E u \in Users, g \in Groups :
     /\ records[u][g].total_attempted > MaxBatchSize
     /\ records[u][g].total_correct > 0

\* C17: every record's mastery is its lifetime total_correct divided by its
\* lifetime total_attempted (0 while nothing was attempted), so
\* total_correct <= total_attempted and the mastery lies in [0, 1].
C17_MasteryIsLifetimeAccuracy ==
  \A u \in Users, g \in Groups :
     LET r == records[u][g] IN
     /\ r.total_correct <= r.total_attempted
     /\ r.mastery[2] > 0
     /\ 0 <= r.mastery[1] /\ r.mastery[1] <= r.mastery[2]
     /\ r.mastery[1] * r.total_attempted = r.total_correct * r.mastery[2]
     /\ LET data == SubjectProgress(u, g[1])
            shown == ProgressPageAccuracy(data) IN
          shown[1] * data.mastery[2] = data.mastery[1] * shown[2]

\* a record whose latest batch was all wrong after an earlier correct attempt
C17_Witness ==
  \E u \in Users, g \in Groups :
     /\ records[u][g].total_attempted = 2
     /\ records[u][g].total_correct = 1
     /\ records[u][g].last_practiced = 2
     /\ expected[u][g].mastery = <<1, 2>>

\* C18: whenever no completion is inside a user's boundary, the user's records
\* are what the committed batches give when applied one after the other.
C18_NoLostUpdate ==
  \A u \in Users : lock[u] = "free" => records[u] = expected[u]

\* two completions of one user at the same time: one inside the boundary, the
\* other waiting for it
C18_Witness ==
  /\ job["d1"].pc = "locked" /\ job["d2"].pc = "waiting"
  /\ job["d1"].user = job["d2"].user

(***************************************************************************)
(* Recommendation Ranker (spec.md 4.4) and the lists of the progress page  *)
(* (frontend/app/research/page.tsx 445-475)                                *)
(***************************************************************************)
\* the (subject, question type) pairs of one user, in the order they are stored
RankedTypes == << <<"maths", "fractions">>, <<"maths", "algebra">>,
                  <<"english", "spelling">>, <<"english", "grammar">>,
                  <<"verbal_reasoning", "synonyms">> >>

\* N of the top-N recommendations
TopN == 3

\* the MasteryRecords record_attempts can have produced for one pair
RankedRecords ==
  UNION {{[total_attempted |-> a, total_correct |-> c,
           mastery |-> IF a > 0 THEN <<c, a>> ELSE <<0, 1>>,
           last_practiced |-> IF a > 0 THEN 1 ELSE 0] : c \in 0..a} :
         a \in 0..MaxAttempted}

\* fractions <<numerator, denominator>> with positive denominators
Less(f, g) == f[1] * g[2] < g[1] * f[2]
Same(f, g) == f[1] * g[2] = g[1] * f[2]

\* interface WeakArea (api.ts 216-221)
WeakArea(t, rec) == [subject |-> t[1], type |-> t[2], accuracy |-> rec.mastery,
                     attempted |-> rec.total_attempted]

\* Faulty variant of WeakerThan: ties in mastery are left as they are stored.
WeakerThan_noTieBreak(a, b) ==
  Less(a.accuracy, b.accuracy)

\* a comes before b in the weak areas: lower mastery, and on equal mastery
\* the higher total attempted
WeakerThan(a, b) ==
  \/ Less(a.accuracy, b.accuracy)
  \/ Same(a.accuracy, b.accuracy) /\ a.attempted > b.attempted

\* x inserted into a sorted list, behind the entries it is not weaker than
InsertArea(sorted, x) ==
  LET before == {i \in 1..Len(sorted) : WeakerThan(x, sorted[i])}
      at     == IF before = {} THEN Len(sorted) + 1
                ELSE CHOOSE i \in before : \A j \in before : i <= j
  IN  SubSeq(sorted, 1, at - 1) \o <<x>> \o SubSeq(sorted, at, Len(sorted))

RECURSIVE SortAreas(_)
SortAreas(areas) ==
  IF areas = <<>> THEN <<>>
  ELSE InsertArea(SortAreas(SubSeq(areas, 1, Len(areas) - 1)), areas[Len(areas)])

\* the pairs with attempted >= 1, in stored order
RECURSIVE Attempted(_, _)
Attempted(recs, n) ==
  IF n = 0 THEN <<>>
  ELSE Attempted(recs, n - 1) \o
       (IF recs[n].total_attempted >= 1
        THEN <<WeakArea(RankedTypes[n], recs[n])>> ELSE <<>>)

getWeakAreas(recs) == SortAreas(Attempted(recs, Len(RankedTypes)))

Slice(list, limit) ==
  SubSeq(list, 1, IF Len(list) < limit THEN Len(list) ELSE limit)

\* interface Recommendation (api.ts 230-234)
getRecommendations(recs) ==
  LET top == Slice(getWeakAreas(recs), TopN)
  IN  [i \in 1..Len(top) |-> [subject |-> top[i].subject, type |-> top[i].type,
                              reason |-> "accuracy below target"]]

\* progress.weak_areas.slice(0, 5) (research/page.tsx 447)
ShownWeakAreas == Slice(ranking.weak_areas, 5)

\* progress.recommended_next.slice(0, 3) (research/page.tsx 475)
ShownRecommendations == Slice(ranking.recommended_next, 3)

ProgressInit ==
  /\ ExamCells /\ PracticeCells /\ CoreCells /\ loadCall = "none"
  /\ ExamResultCell /\ LessonCell /\ LayoutCell /\ FlowchartCell
  /\ ranking \in {[NoRanking EXCEPT !.records = recs] :
                    recs \in [1..Len(RankedTypes) -> RankedRecords]}

\* the progress page loads the user's progress
GetProgress ==
  /\ ~ranking.loaded
  /\ ranking' = [ranking EXCEPT !.loaded = TRUE,
                                !.weak_areas = getWeakAreas(ranking.records),
                                !.recommended_next = getRecommendations(ranking.records)]
  /\ UNCHANGED <<examVars, practiceVars, coreVars>>
  /\ UNCHANGED <<examResult, lesson, layout, flowchart>>

ProgressNext == GetProgress

ProgressSpec == ProgressInit /\ [][ProgressNext]_vars

TypeOf(entry) == <<entry.subject, entry.type>>

\* C21: the weak areas are exactly the question types with attempted >= 1,
\* each once, in ascending order of mastery with the higher total attempted
\* first among equal masteries; the recommendations, and the recommendations
\* the page shows, are the first TopN weak areas.
C21_WeakAreasRanked ==
  ranking.loaded =>
    LET w == ranking.weak_areas
        r == ranking.recommended_next
        practised == {n \in 1..Len(RankedTypes) :
                        ranking.records[n].total_attempted >= 1}
    IN  /\ {TypeOf(w[i]) : i \in 1..Len(w)} = {RankedTypes[n] : n \in practised}
        /\ Len(w) = Cardinality(practised)
        /\ \A i \in 1..Len(w) : \E n \in practised :
              w[i] = WeakArea(RankedTypes[n], ranking.records[n])
        /\ \A i, j \in 1..Len(w) : i < j =>
              /\ ~Less(w[j].accuracy, w[i].accuracy)
              /\ Same(w[i].accuracy, w[j].accuracy) => w[i].attempted >= w[j].attempted
        /\ Len(r) = (IF Len(w) < TopN THEN Len(w) ELSE TopN)
        /\ \A i \in 1..Len(r) : TypeOf(r[i]) = TypeOf(w[i])
        /\ ShownRecommendations = r
        /\ \A i \in 1..Len(ShownWeakAreas) : ShownWeakAreas[i] = w[i]

\* more weak areas than recommendations, a type never practised, and two
\* weak areas of equal mastery whose stored order is not their ranked order
C21_Witness ==
  /\ ranking.loaded
  /\ Len(ranking.weak_areas) > TopN
  /\ \E n \in 1..Len(RankedTypes) : ranking.records[n].total_attempted = 0
  /\ \E m, n \in 1..Len(RankedTypes) :
        /\ m < n
        /\ ranking.records[m].total_attempted >= 1
        /\ Same(ranking.records[m].mastery, ranking.records[n].mastery)
        /\ ranking.records[m].total_attempted < ranking.records[n].total_attempted

(***************************************************************************)
(* completeExam of the core (spec.md 4.2): the MockExamResult, and the     *)
(* figures the results view shows (frontend/app/mock-exam/page.tsx 615-704)*)
(***************************************************************************)
\* the sections of a paper in canonical order; a section's name is its subject
SectionNames == <<"english", "maths", "non_verbal_reasoning", "verbal_reasoning">>

Outcomes == {"correct", "wrong"}

\* the questions of one section that were answered correctly
CountCorrect(attempts, paperNum, sectionIdx) ==
  Cardinality({k \in 1..MaxQuestions :
                 attempts[getSectionQuestions(1, paperNum, sectionIdx)[k]] = "correct"})

\* Faulty variant of CountTotal: unanswered questions are left out.
CountTotal_answeredOnly(attempts, paperNum, sectionIdx) ==
  Cardinality({k \in 1..MaxQuestions :
                 attempts[getSectionQuestions(1, paperNum, sectionIdx)[k]] # "none"})

\* the questions of one section; an unanswered question counts as not correct
CountTotal(attempts, paperNum, sectionIdx) ==
  Len(getSectionQuestions(1, paperNum, sectionIdx))

Fraction(correct, total) == IF total > 0 THEN <<correct, total>> ELSE <<0, 1>>

SectionResult(attempts, paperNum, sectionIdx) ==
  LET correct == CountCorrect(attempts, paperNum, sectionIdx)
      total   == CountTotal(attempts, paperNum, sectionIdx)
  IN  [section |-> SectionNames[sectionIdx + 1], correct |-> correct,
       total |-> total, accuracy |-> Fraction(correct, total)]

PaperResult(attempts, paperNum) ==
  LET correct == SumOver(SectionIdxs,
                   [i \in SectionIdxs |-> CountCorrect(attempts, paperNum, i)])
      total   == SumOver(SectionIdxs,
                   [i \in SectionIdxs |-> CountTotal(attempts, paperNum, i)])
  IN  [paper_number |-> paperNum, total_correct |-> correct,
       total_questions |-> total, accuracy |-> Fraction(correct, total),
       sections |-> [n \in 1..SectionsPerPaper |->
                       SectionResult(attempts, paperNum, n - 1)]]

\* one subject over both papers
SubjectStats(attempts, sectionIdx) ==
  LET correct == SumOver(Papers,
                   [p \in Papers |-> CountCorrect(attempts, p, sectionIdx)])
      total   == SumOver(Papers,
                   [p \in Papers |-> CountTotal(attempts, p, sectionIdx)])
  IN  [subject |-> SectionNames[sectionIdx + 1], correct |-> correct,
       total |-> total, accuracy |-> Fraction(correct, total)]

MockExamResult(attempts) ==
  LET correct == Cardinality({q \in ResultQuestions : attempts[q] = "correct"})
      total   == SumOver(Papers \X SectionIdxs,
                   [s \in Papers \X SectionIdxs |-> CountTotal(attempts, s[1], s[2])])
  IN  [total_correct |-> correct, total_questions |-> total,
       overall_accuracy |-> Fraction(correct, total),
       papers |-> [p \in Papers |-> PaperResult(attempts, p)],
       subject_breakdown |-> [n \in 1..SectionsPerPaper |->
                                SubjectStats(attempts, n - 1)]]

\* Math.round(accuracy * 100) of page.tsx 617, 641, 649, 681
Percent(accuracy) == (200 * accuracy[1] + accuracy[2]) \div (2 * accuracy[2])

ResultInit == ExamInit

\* a question of the exam is answered and graded; a later answer replaces it
GradeExamAnswer(q, outcome) ==
  /\ examResult.result = NoExamResult
  /\ \/ examResult.attempts[q] # "none"
     \/ Cardinality({x \in ResultQuestions : examResult.attempts[x] # "none"}) < MaxGraded
  /\ examResult' = [examResult EXCEPT !.attempts[q] = outcome]
  /\ UNCHANGED <<examVars, practiceVars, coreVars>>
  /\ UNCHANGED <<ranking, lesson, layout, flowchart>>

\* completeExam aggregates the attempts
AggregateExam ==
  /\ examResult.result = NoExamResult
  /\ examResult' = [examResult EXCEPT !.result = MockExamResult(examResult.attempts)]
  /\ UNCHANGED <<examVars, practiceVars, coreVars>>
  /\ UNCHANGED <<ranking, lesson, layout, flowchart>>

ResultNext ==
  \/ \E q \in ResultQuestions, outcome \in Outcomes : GradeExamAnswer(q, outcome)
  \/ AggregateExam

ResultSpec == ResultInit /\ [][ResultNext]_vars

\* C22: in a MockExamResult the exam's counts are the sums of the papers'
\* counts, a paper's counts are the sums of its sections' counts, a subject's
\* counts are the sums of that subject's section over both papers, every
\* question of the exam is in the totals whether answered or not, and every
\* accuracy is correct / total.
C22_ResultConsistent ==
  examResult.result # NoExamResult =>
    LET r == examResult.result IN
    /\ r.total_correct = SumOver(Papers, [p \in Papers |-> r.papers[p].total_correct])
    /\ r.total_questions = SumOver(Papers, [p \in Papers |-> r.papers[p].total_questions])
    /\ r.total_questions = Cardinality(ResultQuestions)
    /\ r.total_correct = Cardinality({q \in ResultQuestions : examResult.attempts[q] = "correct"})
    /\ r.overall_accuracy = <<r.total_correct, r.total_questions>>
    /\ Percent(r.overall_accuracy) \in 0..100
    /\ \A p \in Papers :
         LET paper == r.papers[p] IN
         /\ paper.total_correct =
              SumOver(1..SectionsPerPaper,
                      [n \in 1..SectionsPerPaper |-> paper.sections[n].correct])
         /\ paper.total_questions =
              SumOver(1..SectionsPerPaper,
                      [n \in 1..SectionsPerPaper |-> paper.sections[n].total])
         /\ paper.accuracy = <<paper.total_correct, paper.total_questions>>
         /\ \A n \in 1..SectionsPerPaper :
              /\ paper.sections[n].total = MaxQuestions
              /\ paper.sections[n].accuracy =
                   <<paper.sections[n].correct, paper.sections[n].total>>
    /\ \A n \in 1..SectionsPerPaper :
         LET stats == r.subject_breakdown[n] IN
         /\ stats.correct =
              SumOver(Papers, [p \in Papers |-> r.papers[p].sections[n].correct])
         /\ stats.total =
              SumOver(Papers, [p \in Papers |-> r.papers[p].sections[n].total])
         /\ stats.accuracy = <<stats.correct, stats.total>>
         /\ \A p \in Papers : r.papers[p].sections[n].section = stats.subject

\* a completed exam with a subject answered correctly in both papers and
\* unanswered questions in every section
C22_Witness ==
  /\ examResult.result # NoExamResult
  /\ examResult.result.subject_breakdown[1].correct = 2
  /\ \A p \in Papers : examResult.result.papers[p].sections[1].correct = 1
  /\ \A p \in Papers, i \in SectionIdxs :
        \E k \in 1..MaxQuestions :
           examResult.attempts[getSectionQuestions(1, p, i)[k]] = "none"

\* C23 (as claimed): once a section has been entered (its load has ended), the
\* remaining time of the countdown never increases for as long as the exam
\* stays in that section.
C23_CountdownNeverRestarts ==
  [][(/\ phase = "section" /\ phase' = "section"
      /\ session' = session
      /\ currentPaper' = currentPaper
      /\ currentSectionIdx' = currentSectionIdx
      /\ call.op \notin {"startExam", "getSectionQuestions", "getExam"})
     => remaining' <= remaining]_vars

\* C24 (as claimed): whenever the timer closes a section, the countdown had
\* been started from the time limit configured for that section and has
\* counted it down tick by tick: no expiry without time having passed.
C24_ExpiryOnlyAfterLimit ==
  [][(TimerEffectExpired \/ (TimerTick /\ remaining <= 1))
     => /\ remaining > 0
        /\ sectionTimeLeft = time_seconds(currentPaper, currentSectionIdx)]_vars

(***************************************************************************)
(* One practice session looked at alone: the page loads its questions,     *)
(* hints are requested and answered, answers are checked; no request fails *)
(* and the session is not restarted.                                       *)
(***************************************************************************)
HintNext ==
  \/ LoadQuestionsOk
  \/ \E answer \in Options : PracticeSelectAnswer(answer)
  \/ handleSubmitAnswer
  \/ CheckAnswerOk
  \/ handleGetHintWithin(MaxHintClicks)
  \/ GetHintsOk
  \/ handleNextQuestion

HintSpec == PracticeInit /\ [][HintNext]_vars

\* C25 (as claimed): for every question of the session the hints-used count,
\* which is what handleSubmitAnswer sends as hints_used, lies in
\* 0..MaxHintLevel and is the number of hint levels shown for the question so
\* far, the levels 1..count without a gap.
C25_HintsUsedIsRevealed ==
  practice.startTime # 0 =>
    \A q \in PoolIds :
       /\ practice.hintsUsed[q] \in 0..MaxHintLevel
       /\ revealed[q] = 1..practice.hintsUsed[q]

\* C26 (as claimed): a result is displayed (and Next offered) only when the
\* question shown has been graded, and it is that question's result; on the
\* completion screen every question of the session has a recorded answer.
C26_ResultOfShownQuestion ==
  /\ (MainView /\ showResult) =>
        \E a \in practice.answers :
           a.id = currentQuestion /\ a.result = currentResult
  /\ CompleteView =>
        \A n \in 1..Len(practice.questions) :
           \E a \in practice.answers : a.id = practice.questions[n]

(***************************************************************************)
(* Lesson sections: PracticeSection (components/lessons/PracticeSection.tsx)*)
(* and AssessmentSection (components/lessons/ProgressBar.tsx 61-160).  The  *)
(* two components have the same cells and handlers; the assessment adds    *)
(* restart and its own completion view.                                    *)
(***************************************************************************)
\* the questions prop
LessonQuestions == [n \in 1..MaxLessonQuestions |-> n]

\* PracticeSection.tsx 21-22
lessonQuestion == LessonQuestions[lesson.currentIndex + 1]
isComplete == lesson.currentIndex >= Len(LessonQuestions)

LessonInit ==
  /\ ExamCells /\ PracticeCells /\ CoreCells /\ loadCall = "none"
  /\ RankingCell /\ ExamResultCell /\ LayoutCell /\ FlowchartCell
  /\ lesson \in {[NoLesson EXCEPT !.kind = k] : k \in {"practice", "assessment"}}

\* option buttons, PracticeSection.tsx 134-136
setSelectedAnswer(opt) ==
  /\ ~isComplete
  /\ lesson.result = "null"
  /\ lesson' = [lesson EXCEPT !.selectedAnswer = opt]
  /\ UNCHANGED <<examVars, practiceVars, coreVars>>
  /\ UNCHANGED <<ranking, examResult, layout, flowchart>>

\* checkAnswer up to its await, PracticeSection.tsx 29-32; button at 163-165
LessonCheckAnswer ==
  /\ ~isComplete
  /\ lesson.result = "null"
  /\ lesson.selectedAnswer # "" /\ ~lesson.checking
  /\ lesson.pending = <<>>
  /\ lesson' = [lesson EXCEPT !.checking = TRUE,
                              !.pending = <<lessonQuestion, lesson.selectedAnswer>>]
  /\ UNCHANGED <<examVars, practiceVars, coreVars>>
  /\ UNCHANGED <<ranking, examResult, layout, flowchart>>

\* PracticeSection.tsx 33-35, 45
LessonCheckOk ==
  /\ lesson.pending # <<>>
  /\ LET res == checkAnswer(lesson.pending[1], lesson.pending[2]) IN
       lesson' = [lesson EXCEPT
                    !.result = IF res.is_correct THEN "correct" ELSE "wrong",
                    !.scores = Append(@, res.is_correct),
                    !.checking = FALSE, !.pending = <<>>]
  /\ UNCHANGED <<examVars, practiceVars, coreVars>>
  /\ UNCHANGED <<ranking, examResult, layout, flowchart>>

\* PracticeSection.tsx 36-45: the catch branch shows "Could not check answer"
LessonCheckFail ==
  /\ lesson.pending # <<>>
  /\ lesson' = [lesson EXCEPT !.result = "could not check",
                              !.checking = FALSE, !.pending = <<>>]
  /\ UNCHANGED <<examVars, practiceVars, coreVars>>
  /\ UNCHANGED <<ranking, examResult, layout, flowchart>>

\* nextQuestion, PracticeSection.tsx 48-52; button at 183-188, shown with
\* the result
LessonNextQuestion ==
  /\ ~isComplete
  /\ lesson.result # "null"
  /\ lesson' = [lesson EXCEPT !.currentIndex = @ + 1, !.selectedAnswer = "",
                              !.result = "null"]
  /\ UNCHANGED <<examVars, practiceVars, coreVars>>
  /\ UNCHANGED <<ranking, examResult, layout, flowchart>>

\* restart of the assessment, ProgressBar.tsx 101-106; button at 144-150
LessonRestart ==
  /\ lesson.kind = "assessment"
  /\ isComplete
  /\ lesson.restarts < MaxRestarts
  /\ lesson' = [lesson EXCEPT !.currentIndex = 0, !.selectedAnswer = "",
                              !.result = "null", !.scores = <<>>,
                              !.restarts = @ + 1]
  /\ UNCHANGED <<examVars, practiceVars, coreVars>>
  /\ UNCHANGED <<ranking, examResult, layout, flowchart>>

LessonNext ==
  \/ \E opt \in Options : setSelectedAnswer(opt)
  \/ LessonCheckAnswer
  \/ LessonCheckOk
  \/ LessonCheckFail
  \/ LessonNextQuestion
  \/ LessonRestart

LessonSpec == LessonInit /\ [][LessonNext]_vars

\* scores.filter(Boolean).length
LessonCorrect == Cardinality({n \in 1..Len(lesson.scores) : lesson.scores[n]})

\* the message of the practice completion view, PracticeSection.tsx 63-77
PracticeMessage ==
  IF LessonCorrect = Len(lesson.scores) THEN "Perfect score!"
  ELSE IF 2 * LessonCorrect >= Len(lesson.scores) THEN "Good effort!"
  ELSE "Keep practising"

\* Math.round((correct / scores.length) * 100), ProgressBar.tsx 119; 0 / 0
\* is NaN
AssessmentPercentage ==
  IF Len(lesson.scores) = 0 THEN "NaN"
  ELSE Percent(<<LessonCorrect, Len(lesson.scores)>>)

\* percentage >= 60 (ProgressBar.tsx 120); NaN >= 60 is false
passed == AssessmentPercentage # "NaN" /\ AssessmentPercentage >= 60

\* C27 (as claimed): in the completion view of a lesson section one score is
\* recorded per question, so the fraction and the percentage are defined; the
\* practice section announces a perfect score only when every question was
\* answered correctly, and the assessment a pass only when at least 60% of
\* the questions were.
C27_CompletionWellDefined ==
  isComplete =>
    /\ Len(lesson.scores) = Len(LessonQuestions)
    /\ lesson.kind = "practice" =>
         (PracticeMessage = "Perfect score!" => LessonCorrect = Len(LessonQuestions))
    /\ lesson.kind = "assessment" =>
         /\ AssessmentPercentage # "NaN"
         /\ passed => 100 * LessonCorrect >= 60 * Len(LessonQuestions)

\* C28 (as claimed): while the exam is in a section and nothing is loading,
\* the current question index is within 0..questions.length - 1 and the
\* question it designates is a question of the current section.
C28_IndexInSection ==
  (phase = "section" /\ ~loading) =>
     /\ currentQuestionIdx \in 0..(Len(questions) - 1)
     /\ questions[currentQuestionIdx + 1] =
          getSectionQuestions(session, currentPaper, currentSectionIdx)[currentQuestionIdx + 1]

\* ---------------------------------------------------------------------
\* computeLayout of the flowchart (src/unnamed/part_008 50-146)
\* ---------------------------------------------------------------------

NODE_W == 180
NODE_H == 52
GAP_X == 40
GAP_Y == 60

\* node ids are numbers here; 0 is an id no node has, and an id above the
\* number of nodes of the flowchart at hand is unknown too
UnknownId == 0
EdgeEnds == (1..MaxNodes) \cup {UnknownId}
FlowchartEdges == [from : EdgeEnds, to : EdgeEnds]
EdgeLists == UNION {[1..n -> FlowchartEdges] : n \in 0..MaxEdges}
NodeLists == {[i \in 1..n |-> i] : n \in 0..MaxNodes}

Ids(nodes) == {nodes[i] : i \in 1..Len(nodes)}

\* part_008 59-66: children.get(e.from)?.push(e.to) keeps the order of the
\* edges and stores an unknown target; children.get(id) || [] for an unknown id
children(nodes, edges, id) ==
  IF id \notin Ids(nodes) THEN <<>>
  ELSE LET out == SelectSeq(edges, LAMBDA e : e.from = id)
       IN [i \in 1..Len(out) |-> out[i].to]

\* part_008 59-66: parents.get(e.to)?.push(e.from)
parents(nodes, edges, id) ==
  LET into == SelectSeq(edges, LAMBDA e : e.to = id)
  IN [i \in 1..Len(into) |-> into[i].from]

\* part_008 69-70: nodes without a parent, or the first node when all have one
roots(nodes, edges) ==
  LET orphans == SelectSeq(nodes, LAMBDA n : Len(parents(nodes, edges, n)) = 0)
  IN IF Len(orphans) = 0 /\ Len(nodes) > 0 THEN <<nodes[1]>> ELSE orphans

\* part_008 78-84: the for loop over the children of the node taken from the
\* queue; a child without a rank or with a smaller one is ranked and queued
RECURSIVE visit(_, _, _, _)
visit(kids, rank, rankMap, queue) ==
  IF Len(kids) = 0 THEN [rankMap |-> rankMap, queue |-> queue]
  ELSE LET child == Head(kids)
           raise == child \notin DOMAIN rankMap \/ rankMap[child] < rank + 1
       IN visit(Tail(kids), rank,
                IF raise THEN (child :> (rank + 1)) @@ rankMap ELSE rankMap,
                IF raise THEN Append(queue, child) ELSE queue)

\* part_008 88-91: a node the loop did not reach gets rank 0
rankOf(rankMap, id) == IF id \in DOMAIN rankMap THEN rankMap[id] ELSE 0

\* part_008 94-98: ranks[r], the nodes of rank r in the order of nodes
group(nodes, rankMap, r) ==
  SelectSeq(nodes, LAMBDA n : rankOf(rankMap, n) = r)

indexIn(list, id) == CHOOSE i \in 1..Len(list) : list[i] = id

\* part_008 104-124: offsetInGroup = i - (count - 1) / 2 with i counted from
\* 0; NODE_W + GAP_X and NODE_H + GAP_Y are even, so the product is whole
place(nodes, rankMap, direction, id) ==
  LET r == rankOf(rankMap, id)
      g == group(nodes, rankMap, r)
      twiceOffset == 2 * (indexIn(g, id) - 1) - (Len(g) - 1)
  IN IF direction = "TD"
     THEN [id |-> id, rank |-> r, x |-> twiceOffset * ((NODE_W + GAP_X) \div 2),
           y |-> r * (NODE_H + GAP_Y)]
     ELSE [id |-> id, rank |-> r, x |-> r * (NODE_W + GAP_X),
           y |-> twiceOffset * ((NODE_H + GAP_Y) \div 2)]

Lowest(S) == CHOOSE m \in S : \A x \in S : m <= x

\* part_008 126-139: the layouts shifted so that the smallest x and y are 0
nodeLayouts(nodes, rankMap, direction) ==
  LET raw == [id \in Ids(nodes) |-> place(nodes, rankMap, direction, id)]
      minX == Lowest({raw[id].x : id \in Ids(nodes)})
      minY == Lowest({raw[id].y : id \in Ids(nodes)})
  IN [id \in Ids(nodes) |->
        [raw[id] EXCEPT !.x = @ - minX, !.y = @ - minY]]

\* the arguments of one call of computeLayout
LayoutInit ==
  /\ ExamCells /\ PracticeCells /\ CoreCells
  /\ RankingCell /\ ExamResultCell /\ LessonCell /\ FlowchartCell
  /\ loadCall = "none"
  /\ layout \in {[NoLayout EXCEPT !.nodes = ns, !.edges = es, !.direction = d] :
                   ns \in NodeLists, es \in EdgeLists, d \in {"TD", "LR"}}

\* part_008 50-74: the maps, the roots, the queue and the ranks of the roots
computeLayout ==
  /\ layout.pc = "idle"
  /\ LET rs == roots(layout.nodes, layout.edges)
     IN layout' = [layout EXCEPT !.pc = "bfs", !.roots = rs, !.queue = rs,
                                 !.rankMap = [id \in Ids(rs) |-> 0]]
  /\ UNCHANGED <<examVars, practiceVars, coreVars>>
  /\ UNCHANGED <<ranking, examResult, lesson, flowchart>>

\* part_008 76-86: one turn of while (queue.length > 0), followed as long as
\* the rank of the node taken from the queue is below MaxRank
LayoutLoop ==
  /\ layout.pc = "bfs"
  /\ Len(layout.queue) > 0
  /\ LET id == Head(layout.queue)
         rank == layout.rankMap[id]
         after == visit(children(layout.nodes, layout.edges, id), rank,
                        layout.rankMap, Tail(layout.queue))
     IN /\ rank < MaxRank
        /\ layout' = [layout EXCEPT !.queue = after.queue,
                                    !.rankMap = after.rankMap]
  /\ UNCHANGED <<examVars, practiceVars, coreVars>>
  /\ UNCHANGED <<ranking, examResult, lesson, flowchart>>

\* part_008 88-146: the loop has ended; ranks of the nodes it did not reach,
\* the groups, the positions and the shift
LayoutReturn ==
  /\ layout.pc = "bfs"
  /\ Len(layout.queue) = 0
  /\ layout' = [layout EXCEPT
       !.pc = "done",
       !.rankMap = [id \in DOMAIN layout.rankMap \cup Ids(layout.nodes) |->
                      rankOf(layout.rankMap, id)],
       !.layouts = nodeLayouts(layout.nodes, layout.rankMap, layout.direction)]
  /\ UNCHANGED <<examVars, practiceVars, coreVars>>
  /\ UNCHANGED <<ranking, examResult, lesson, flowchart>>

LayoutNext == computeLayout \/ LayoutLoop \/ LayoutReturn

LayoutSpec == LayoutInit /\ [][LayoutNext]_vars

\* C29 (as claimed): computeLayout terminates for every list of nodes and
\* edges. A loop that ends gives a node the length of a path from a root
\* that visits no node twice, or that length plus one to an unknown target,
\* so while the loop runs no rank exceeds the number of nodes; a rank beyond
\* that was reached by going round a cycle, which the loop then does again. When the function has returned,
\* every node has one layout, with the rank of the rank map, and no two
\* nodes share a position.
C29_LayoutTerminates ==
  /\ \A id \in DOMAIN layout.rankMap :
       layout.rankMap[id] <= Len(layout.nodes)
  /\ layout.pc = "done" =>
       /\ DOMAIN layout.layouts = Ids(layout.nodes)
       /\ \A a, b \in Ids(layout.nodes) :
            /\ layout.layouts[a].rank = layout.rankMap[a]
            /\ (a # b =>
                  <<layout.layouts[a].x, layout.layouts[a].y>> #
                  <<layout.layouts[b].x, layout.layouts[b].y>>)

\* ---------------------------------------------------------------------
\* Zoom of InteractiveFlowchart (src/unnamed/part_008 233-249, 274-318,
\* 363-394)
\* ---------------------------------------------------------------------

MIN_ZOOM == <<1, 2>>
MAX_ZOOM == <<3, 1>>
ZOOM_STEP == <<1, 4>>

RECURSIVE Gcd(_, _)
Gcd(a, b) == IF b = 0 THEN a ELSE Gcd(b, a % b)

\* the value of a quotient n / d of numbers that are not negative: 0 / 0 is
\* NaN and n / 0 is Infinity
Quotient(n, d) ==
  IF d = 0 THEN (IF n = 0 THEN NaN ELSE Infinity)
  ELSE <<n \div Gcd(n, d), d \div Gcd(n, d)>>

Plus(f, g) == Quotient(f[1] * g[2] + g[1] * f[2], f[2] * g[2])
Minus(f, g) == Quotient(f[1] * g[2] - g[1] * f[2], f[2] * g[2])
Times(f, g) == Quotient(f[1] * g[1], f[2] * g[2])

\* Math.min and Math.max return NaN when an argument is NaN
MathMin(f, g) == IF f = NaN \/ g = NaN THEN NaN ELSE IF Less(f, g) THEN f ELSE g
MathMax(f, g) == IF f = NaN \/ g = NaN THEN NaN ELSE IF Less(f, g) THEN g ELSE f

\* f <= g of two numbers; a comparison with NaN is false
AtMost(f, g) == f # NaN /\ g # NaN /\ ~Less(g, f)

\* Math.min(MAX_ZOOM, Math.max(MIN_ZOOM, z)), part_008 297 and 382
clampZoom(z) == MathMin(MAX_ZOOM, MathMax(MIN_ZOOM, z))

ZoomInit ==
  /\ ExamCells /\ PracticeCells /\ CoreCells /\ loadCall = "none"
  /\ RankingCell /\ ExamResultCell /\ LessonCell /\ LayoutCell
  /\ FlowchartCell

\* part_008 274-276
handleZoomIn ==
  /\ flowchart' = [flowchart EXCEPT
       !.zoom = MathMin(MAX_ZOOM, Plus(flowchart.zoom, ZOOM_STEP))]
  /\ UNCHANGED <<examVars, practiceVars, coreVars>>
  /\ UNCHANGED <<ranking, examResult, lesson, layout>>

\* part_008 278-280
handleZoomOut ==
  /\ flowchart' = [flowchart EXCEPT
       !.zoom = MathMax(MIN_ZOOM, Minus(flowchart.zoom, ZOOM_STEP))]
  /\ UNCHANGED <<examVars, practiceVars, coreVars>>
  /\ UNCHANGED <<ranking, examResult, lesson, layout>>

\* part_008 282-285
handleZoomReset ==
  /\ flowchart' = [flowchart EXCEPT !.zoom = One, !.panned = FALSE]
  /\ UNCHANGED <<examVars, practiceVars, coreVars>>
  /\ UNCHANGED <<ranking, examResult, lesson, layout>>

\* part_008 291-313: a wheel event; without ctrl or meta it is left to the
\* page, down (deltaY > 0) zooms out and up zooms in; pan follows the cursor
\* when the zoom changed (NaN !== NaN is true)
onWheel(ctrlOrMeta, down) ==
  /\ LET next == clampZoom(IF down THEN Minus(flowchart.zoom, ZOOM_STEP)
                                   ELSE Plus(flowchart.zoom, ZOOM_STEP))
     IN flowchart' =
          IF ~ctrlOrMeta THEN flowchart
          ELSE [flowchart EXCEPT
                  !.zoom = next,
                  !.panned = @ \/ next = NaN \/ next # flowchart.zoom]
  /\ UNCHANGED <<examVars, practiceVars, coreVars>>
  /\ UNCHANGED <<ranking, examResult, lesson, layout>>

\* part_008 363-371: touchstart with two touches that are dist apart
onTouchStart(dist) ==
  /\ flowchart' = [flowchart EXCEPT
       !.pinchRef = [dist |-> dist, zoom |-> flowchart.zoom,
                     panned |-> flowchart.panned]]
  /\ UNCHANGED <<examVars, practiceVars, coreVars>>
  /\ UNCHANGED <<ranking, examResult, lesson, layout>>

\* part_008 379-394: touchmove with two touches that are dist apart; the
\* svg receives it also when the second finger went down beside the svg, so
\* that no touchstart with two touches came before
onTouchMove(dist) ==
  /\ flowchart.pinches < MaxPinches
  /\ LET scale == Quotient(dist, flowchart.pinchRef.dist)
         nextZoom == clampZoom(Times(flowchart.pinchRef.zoom, scale))
     IN flowchart' = [flowchart EXCEPT
          !.zoom = nextZoom,
          !.panned = flowchart.pinchRef.panned \/ nextZoom = NaN
                       \/ nextZoom # flowchart.pinchRef.zoom,
          !.pinches = @ + 1]
  /\ UNCHANGED <<examVars, practiceVars, coreVars>>
  /\ UNCHANGED <<ranking, examResult, lesson, layout>>

ZoomNext ==
  \/ handleZoomIn
  \/ handleZoomOut
  \/ handleZoomReset
  \/ \E ctrlOrMeta \in BOOLEAN, down \in BOOLEAN : onWheel(ctrlOrMeta, down)
  \/ \E dist \in 0..MaxDist : onTouchStart(dist)
  \/ \E dist \in 0..MaxDist : onTouchMove(dist)

ZoomSpec == ZoomInit /\ [][ZoomNext]_vars

\* C30 (as claimed): after every sequence of zoom-in, zoom-out, reset, wheel
\* and pinch events the zoom level is a number with
\* MIN_ZOOM <= zoom <= MAX_ZOOM.
C30_ZoomWithinLimits ==
  AtMost(MIN_ZOOM, flowchart.zoom) /\ AtMost(flowchart.zoom, MAX_ZOOM)

====
